---- MODULE Spec2Model ----
\* GMGR: the GPIO control plane.  The manager facade (src/gpio.rs), the two
\* line backends (src/backend/mock.rs, src/backend/libgpiod.rs) and the event
\* dispatcher with its bounded per-pin history.
EXTENDS Integers, Sequences, FiniteSets, TLC

\* ------------------------------------------------------------------ bounds
MaxDebounce == 1
MaxValue == 2
MaxCapacity == 2

MaxBroadcast == 2

MaxTime == 2

\* edges enough to overflow a history
MaxEvents == MaxCapacity + 1

\* ------------------------------------------------------------ data model
GpioStates ==
  {"Error", "Disabled", "PushPull", "OpenDrain", "OpenSource", "Floating", "PullUp", "PullDown"}

EdgeDetects == {"None", "Rising", "Falling", "Both"}

PinSettings == [state : GpioStates, edge : EdgeDetects, debounce_ms : 0..MaxDebounce]

DefaultSettings == [state |-> "Disabled", edge |-> "None", debounce_ms |-> 0]

NoInstant == -1

NoValue == -1

NoFilter == -1

\* no matching write yet: the instant and whether the write produced an event
NoMatch == [t |-> NoInstant, fired |-> FALSE]

\* the pins of the configuration file, and one id that is not declared
Declared == {1, 2}

Undeclared == {9}

PinIds == Declared \cup Undeclared

capabilities(p) ==
  IF p = 1 THEN {"PushPull", "Error"} ELSE {"Floating", "Disabled"}

\* ---------------------------------------------------------------- state
VARIABLES
  backend,     \* "mock" or "libgpiod": the backend the build was made with
  capacity,    \* event_history_capacity of the configuration
  pins,        \* the backend's map pin id -> entry (a function on the present ids)
  history,     \* the dispatcher's per-pin history, oldest first
  now,         \* the clock, in milliseconds
  ret,         \* the call that just returned and what it returned
  last_set,    \* per pin: kind of the last successful set_pin_settings
  written,     \* per pin: value of the last successful write_value since the last settings call
  dispatched,  \* per pin: every event ever handed to dispatch, in dispatch order
  broadcast_capacity, \* broadcast_capacity of the configuration
  bus,         \* the broadcast bus: every event sent on it, in send order
  subs,        \* the live subscribers (websocket sessions) and their receive ends
  live,        \* per pin: listener threads spawned and not yet joined
  lifecycle,   \* per pin: the most recent spawn and join operations, in order
  matched,     \* per pin: the last write that matched the edge filter since the settings were set
  registry,    \* the RwLock around the backend's map: its writer and its readers
  slot,        \* per pin: the thread that holds the Mutex around the pin's entry
  request,     \* per pin: the FairMutex around the line request, its owner and its waiters
  calls,       \* per caller thread: the backend call it is in and what is left of it
  listeners,   \* per pin: the listener thread, its position and its cancel flag
  twin         \* a mock backend given the same calls as the kernel backend: its map and its last result

vars == <<backend, capacity, pins, history, now, ret, last_set, written, dispatched,
          broadcast_capacity, bus, subs, live, lifecycle, matched,
          registry, slot, request, calls, listeners, twin>>

\* the locks and the threads of the backend
lock_vars == <<registry, slot, request, calls, listeners>>

\* ------------------------------------------------------------- helpers
is_writable_wrong(state) == state \in {"PushPull", "OpenDrain", "OpenSource", "Floating"}

is_writable(state) == state \in {"PushPull", "OpenDrain", "OpenSource"}

is_edge_detectable(state) == state \in {"Floating", "PullUp", "PullDown"}

edge_matches(configured, observed) ==
  CASE configured = "None" -> FALSE
    [] configured = "Rising" -> observed = "Rising"
    [] configured = "Falling" -> observed = "Falling"
    [] configured = "Both" -> observed \in {"Rising", "Falling"}

Put(m, p, e) == [q \in (DOMAIN m) \cup {p} |-> IF q = p THEN e ELSE m[q]]

Remove_keep(m, p) == m

Remove(m, p) == [q \in (DOMAIN m) \ {p} |-> m[q]]

EdgeEvent(p, kind, t) == [pin_id |-> p, edge |-> kind, timestamp_ms |-> t]

\* what a backend call returns: the outcome, the map afterwards, the value
\* read and the events handed to the event sink during the call
Outcome(res, msg, ps, value, evs) ==
  [res |-> res, msg |-> msg, pins |-> ps, value |-> value, events |-> evs, threads |-> <<>>]

Entry(settings, value, handler, last_event, listener) ==
  [settings |-> settings, value |-> value, handler |-> handler,
   last_event |-> last_event, listener |-> listener]

\* a listener thread operation of a backend call
ThreadOp(p, op) == [pin |-> p, op |-> op]

\* --------------------------------------------------------- mock backend
mock_get_settings(ps, p) ==
  IF p \in DOMAIN ps THEN ps[p].settings ELSE DefaultSettings

mock_set_settings(ps, p, settings, event_handler) ==
  LET old == IF p \in DOMAIN ps THEN ps[p]
             ELSE Entry(DefaultSettings, 0, FALSE, NoInstant, FALSE)
      new == IF settings.state = "Disabled"
               THEN [old EXCEPT !.settings = settings, !.value = 0, !.handler = FALSE]
             ELSE IF settings.edge # "None"
               THEN [old EXCEPT !.settings = settings, !.handler = event_handler,
                                !.last_event = NoInstant]
             ELSE [old EXCEPT !.settings = settings, !.handler = FALSE]
  IN Outcome("Ok", "", Put(ps, p, new), NoValue, <<>>)

mock_read_value_nocheck(ps, p) ==
  IF p \notin DOMAIN ps
    THEN Outcome("InvalidState", "pin not configured, set state first", ps, NoValue, <<>>)
  ELSE Outcome("Ok", "", ps, ps[p].value, <<>>)

mock_read_value(ps, p) ==
  IF p \notin DOMAIN ps
    THEN Outcome("InvalidState", "pin not configured, set state first", ps, NoValue, <<>>)
  ELSE IF ps[p].settings.state = "Disabled"
    THEN Outcome("InvalidState", "pin is disabled and cannot be read", ps, NoValue, <<>>)
  ELSE Outcome("Ok", "", ps, ps[p].value, <<>>)

\* the debounce window: an edge is let through when none was let through
\* before or the last one is at least debounce milliseconds old
debounce_allows_always(last_event, t, debounce) == TRUE

debounce_allows_later(last_event, t, debounce) ==
  IF last_event = NoInstant THEN TRUE ELSE t - last_event > debounce

debounce_allows(last_event, t, debounce) ==
  IF last_event = NoInstant THEN TRUE ELSE t - last_event >= debounce

mock_write_value_level(ps, p, value, t) ==
  IF p \notin DOMAIN ps
    THEN Outcome("InvalidState", "pin not configured, set state first", ps, NoValue, <<>>)
  ELSE IF ~is_writable(ps[p].settings.state)
    THEN Outcome("InvalidState", "pin must be in output mode to set value", ps, NoValue, <<>>)
  ELSE
    LET pin == ps[p]
        edge_kind == IF value = 1 THEN "Rising" ELSE IF value = 0 THEN "Falling" ELSE "None"
        matches == edge_kind # "None" /\ edge_matches(pin.settings.edge, edge_kind)
        allow == debounce_allows(pin.last_event, t, pin.settings.debounce_ms)
        fire == matches /\ allow
        new == [pin EXCEPT !.value = value,
                           !.last_event = IF fire THEN t ELSE pin.last_event]
    IN Outcome("Ok", "", Put(ps, p, new), NoValue,
               IF fire /\ pin.handler THEN <<EdgeEvent(p, edge_kind, t)>> ELSE <<>>)

mock_write_value_nostore(ps, p, value, t) ==
  IF p \notin DOMAIN ps
    THEN Outcome("InvalidState", "pin not configured, set state first", ps, NoValue, <<>>)
  ELSE IF ~is_writable(ps[p].settings.state)
    THEN Outcome("InvalidState", "pin must be in output mode to set value", ps, NoValue, <<>>)
  ELSE Outcome("Ok", "", ps, NoValue, <<>>)

mock_write_value(ps, p, value, t) ==
  IF p \notin DOMAIN ps
    THEN Outcome("InvalidState", "pin not configured, set state first", ps, NoValue, <<>>)
  ELSE IF ~is_writable(ps[p].settings.state)
    THEN Outcome("InvalidState", "pin must be in output mode to set value", ps, NoValue, <<>>)
  ELSE
    LET pin == ps[p]
        old == pin.value
        edge_kind == IF old = 0 /\ value = 1 THEN "Rising"
                     ELSE IF old = 1 /\ value = 0 THEN "Falling"
                     ELSE "None"
        matches == edge_kind # "None" /\ edge_matches(pin.settings.edge, edge_kind)
        allow == debounce_allows(pin.last_event, t, pin.settings.debounce_ms)
        fire == matches /\ allow
        new == [pin EXCEPT !.value = value,
                           !.last_event = IF fire THEN t ELSE pin.last_event]
    IN Outcome("Ok", "", Put(ps, p, new), NoValue,
               IF fire /\ pin.handler THEN <<EdgeEvent(p, edge_kind, t)>> ELSE <<>>)

\* ------------------------------------------------------- kernel backend
validate_pin_settings_lax(settings) ==
  CASE settings.state = "Error" -> "cannot set pin to error state"
    [] settings.state = "Disabled" ->
         IF settings.edge # "None" THEN "cannot set edge detection on disabled pin"
         ELSE "Ok"
    [] OTHER ->
         IF ~is_edge_detectable(settings.state) /\ settings.edge # "None"
           THEN "edge detection requires an input-capable state"
         ELSE IF settings.edge = "None" /\ settings.debounce_ms # 0
           THEN "debounce requires edge detection to be enabled"
         ELSE "Ok"

validate_pin_settings(settings) ==
  CASE settings.state = "Error" -> "cannot set pin to error state"
    [] settings.state = "Disabled" ->
         IF settings.edge # "None" THEN "cannot set edge detection on disabled pin"
         ELSE IF settings.debounce_ms # 0 THEN "cannot set debounce on disabled pin"
         ELSE "Ok"
    [] OTHER ->
         IF ~is_edge_detectable(settings.state) /\ settings.edge # "None"
           THEN "edge detection requires an input-capable state"
         ELSE IF settings.edge = "None" /\ settings.debounce_ms # 0
           THEN "debounce requires edge detection to be enabled"
         ELSE "Ok"

\* the closure get_listener of set_settings: a listener is spawned when edge
\* detection is on and a callback was passed
get_listener_inverted(edge, callback) == edge = "None" /\ callback

get_listener(edge, callback) == edge # "None" /\ callback

\* the Occupied branch: a listener is spawned only when the handle has none
respawn_always(current, edge, callback) == get_listener(edge, callback)

respawn(current, edge, callback) ==
  IF ~current THEN get_listener(edge, callback) ELSE FALSE

hw_get_settings(ps, p) ==
  IF p \in DOMAIN ps THEN ps[p].settings ELSE DefaultSettings

\* driver_ok: whether the libgpiod calls of this set_settings succeed;
\* level: the level of the line once it is (re)requested
hw_set_settings(ps, p, settings, event_callback, driver_ok, level) ==
  LET v == validate_pin_settings(settings)
      stop == settings.edge = "None" /\ p \in DOMAIN ps /\ ps[p].listener
      joined == IF stop THEN <<ThreadOp(p, "join")>> ELSE <<>>
      stopped == IF settings.edge = "None" /\ p \in DOMAIN ps
                   THEN [ps EXCEPT ![p].listener = FALSE]
                 ELSE ps
  IN IF v # "Ok" THEN Outcome("InvalidState", v, ps, NoValue, <<>>)
     ELSE IF settings.state = "Disabled"
       THEN [Outcome("Ok", "", Remove(stopped, p), NoValue, <<>>) EXCEPT !.threads = joined]
     ELSE IF p \in DOMAIN stopped
       THEN IF ~driver_ok
              THEN [Outcome("Gpio", "reconfigure lines", stopped, NoValue, <<>>)
                      EXCEPT !.threads = joined]
            ELSE LET handle == stopped[p]
                     spawn == respawn(handle.listener, settings.edge, event_callback)
                     listener == handle.listener \/ spawn
                 IN [Outcome("Ok", "",
                             Put(stopped, p, Entry(settings, level, FALSE, NoInstant, listener)),
                             NoValue, <<>>)
                       EXCEPT !.threads = joined \o IF spawn THEN <<ThreadOp(p, "spawn")>>
                                                    ELSE <<>>]
     ELSE IF ~driver_ok
       THEN Outcome("Gpio", "request lines", stopped, NoValue, <<>>)
     ELSE LET spawn == get_listener(settings.edge, event_callback)
          IN [Outcome("Ok", "",
                      Put(stopped, p, Entry(settings, level, FALSE, NoInstant, spawn)),
                      NoValue, <<>>)
                EXCEPT !.threads = IF spawn THEN <<ThreadOp(p, "spawn")>> ELSE <<>>]

hw_read_value_unconfigured(ps, p, driver_ok) ==
  IF p \notin DOMAIN ps THEN Outcome("Ok", "", ps, 0, <<>>)
  ELSE IF ~driver_ok THEN Outcome("Gpio", "get value", ps, NoValue, <<>>)
  ELSE Outcome("Ok", "", ps, ps[p].value, <<>>)

hw_read_value(ps, p, driver_ok) ==
  IF p \notin DOMAIN ps
    THEN Outcome("InvalidState", "pin not configured, set state first", ps, NoValue, <<>>)
  ELSE IF ~driver_ok THEN Outcome("Gpio", "get value", ps, NoValue, <<>>)
  ELSE Outcome("Ok", "", ps, ps[p].value, <<>>)

hw_write_value(ps, p, value, driver_ok) ==
  IF p \notin DOMAIN ps
    THEN Outcome("InvalidState", "pin not configured, set state first", ps, NoValue, <<>>)
  ELSE IF ~is_writable(ps[p].settings.state)
    THEN Outcome("InvalidState", "pin must be in output mode to set value", ps, NoValue, <<>>)
  ELSE IF ~driver_ok THEN Outcome("Gpio", "set value", ps, NoValue, <<>>)
  ELSE Outcome("Ok", "", [ps EXCEPT ![p].value = IF value = 1 THEN 1 ELSE 0], NoValue, <<>>)

\* ------------------------------------------------------ event dispatcher
evict_one(h, cap) == IF Len(h) > cap THEN Tail(h) ELSE h

RECURSIVE evict(_, _)
evict(h, cap) == IF Len(h) >= cap /\ Len(h) > 0 THEN evict(Tail(h), cap) ELSE h

\* dispatch(event): drop when the pin has no history slot, else evict from
\* the head while len >= capacity and append to the tail
dispatch(hist, cap, event) ==
  IF event.pin_id \notin DOMAIN hist THEN hist
  ELSE [hist EXCEPT ![event.pin_id] = Append(evict(@, cap), event)]

RECURSIVE dispatch_all(_, _, _)
dispatch_all(hist, cap, events) ==
  IF events = <<>> THEN hist
  ELSE dispatch_all(dispatch(hist, cap, Head(events)), cap, Tail(events))

\* dispatch step 3: send on the broadcast channel; an event of an unknown
\* pin was dropped at step 1
publish(b, hist, event) ==
  IF event.pin_id \notin DOMAIN hist THEN b ELSE Append(b, event)

RECURSIVE publish_all(_, _, _)
publish_all(b, hist, events) ==
  IF events = <<>> THEN b
  ELSE publish_all(publish(b, hist, Head(events)), hist, Tail(events))

\* a receive end of the bus and its session: next is its cursor on the bus,
\* received what the session was sent, lagged the lag signals it got, since
\* the number of messages the bus had carried when it subscribed
Subscriber(start, pin_filter) ==
  [next |-> start, received |-> <<>>, lagged |-> 0, pin_filter |-> pin_filter, since |-> 0]

\* subscribe_events: a new receive end sees the messages sent from now on
subscribe_events_replay(b) == 1

subscribe_events(b) == Len(b) + 1

\* the bus retains the newest cap messages
oldest_retained(b, cap) == IF Len(b) > cap THEN Len(b) - cap + 1 ELSE 1

\* what the receive end yields next: a lag signal when its cursor fell off the
\* retained messages (it then resumes from the newest message), the message
\* at its cursor, or nothing yet
bus_next(b, cap, sub) ==
  IF sub.next < oldest_retained(b, cap)
    THEN [kind |-> "Lagged", event |-> EdgeEvent(0, "None", 0), next |-> Len(b)]
  ELSE IF sub.next <= Len(b)
    THEN [kind |-> "Event", event |-> b[sub.next], next |-> sub.next + 1]
  ELSE [kind |-> "Pending", event |-> EdgeEvent(0, "None", 0), next |-> sub.next]

\* the pin filter of a websocket session
ws_deliver_filtered_only(pin_filter, event) ==
  pin_filter # NoFilter /\ pin_filter = event.pin_id

ws_deliver(pin_filter, event) ==
  pin_filter = NoFilter \/ pin_filter = event.pin_id

\* the events.next() arm of handle_event_websocket: an event is sent to the
\* session when it passes the filter, a lag is reported to the session, and
\* the loop breaks when the session cannot be written
handle_event_lag_breaks(sub, item, session_ok) ==
  IF item.kind = "Lagged"
    THEN [open |-> FALSE, sub |-> [sub EXCEPT !.next = item.next, !.lagged = @ + 1]]
  ELSE IF ws_deliver(sub.pin_filter, item.event)
    THEN [open |-> session_ok,
          sub |-> [sub EXCEPT !.next = item.next,
                              !.received = IF session_ok THEN Append(@, item.event) ELSE @]]
  ELSE [open |-> TRUE, sub |-> [sub EXCEPT !.next = item.next]]

handle_event(sub, item, session_ok) ==
  IF item.kind = "Lagged"
    THEN [open |-> session_ok, sub |-> [sub EXCEPT !.next = item.next, !.lagged = @ + 1]]
  ELSE IF ws_deliver(sub.pin_filter, item.event)
    THEN [open |-> session_ok,
          sub |-> [sub EXCEPT !.next = item.next,
                              !.received = IF session_ok THEN Append(@, item.event) ELSE @]]
  ELSE [open |-> TRUE, sub |-> [sub EXCEPT !.next = item.next]]

Toggle == <<"spawn", "join", "spawn">>

RECURSIVE count_all(_, _)
count_all(l, ops) ==
  IF ops = <<>> THEN l
  ELSE count_all(IF Head(ops).pin \in DOMAIN l
                   THEN [l EXCEPT ![Head(ops).pin] =
                           IF Head(ops).op = "spawn" THEN @ + 1 ELSE @ - 1]
                 ELSE l,
                 Tail(ops))

RECURSIVE record_all(_, _)
record_all(log, ops) ==
  IF ops = <<>> THEN log
  ELSE record_all(IF Head(ops).pin \in DOMAIN log
                    THEN [log EXCEPT ![Head(ops).pin] =
                            LET all == Append(@, Head(ops).op)
                            IN IF Len(all) > Len(Toggle) THEN Tail(all) ELSE all]
                  ELSE log,
                  Tail(ops))

RECURSIVE log_all(_, _)
log_all(log, events) ==
  IF events = <<>> THEN log
  ELSE log_all(IF Head(events).pin_id \in DOMAIN log
                 THEN [log EXCEPT ![Head(events).pin_id] = Append(@, Head(events))]
               ELSE log,
               Tail(events))

\* ------------------------------------------------------- manager facade
pin_config(p) == p \in Declared

capability_matches_uniform(state, caps) == state \in caps

capability_matches(state, caps) ==
  CASE state = "Error" -> FALSE
    [] state = "Disabled" -> TRUE
    [] OTHER -> state \in caps

\* the settings invariants the manager applies before it delegates
settings_invariants(s) ==
  /\ s.state # "Error"
  /\ s.state = "Disabled" => s.edge = "None" /\ s.debounce_ms = 0
  /\ s.edge # "None" => is_edge_detectable(s.state)
  /\ s.debounce_ms # 0 => s.edge # "None"

\* the dispatcher is attached as the event sink iff edge detection is on
event_sink(s) == s.edge # "None"

backend_get_settings(ps, p) ==
  IF backend = "mock" THEN mock_get_settings(ps, p) ELSE hw_get_settings(ps, p)

backend_set_settings(ps, p, s, sink, driver_ok, level) ==
  IF backend = "mock" THEN mock_set_settings(ps, p, s, sink)
  ELSE hw_set_settings(ps, p, s, sink, driver_ok, level)

backend_read_value(ps, p, driver_ok) ==
  IF backend = "mock" THEN mock_read_value(ps, p) ELSE hw_read_value(ps, p, driver_ok)

backend_write_value(ps, p, value, t, driver_ok) ==
  IF backend = "mock" THEN mock_write_value(ps, p, value, t)
  ELSE hw_write_value(ps, p, value, driver_ok)

manager_set_pin_settings_late(ps, p, s, driver_ok, level) ==
  IF ~pin_config(p) THEN Outcome("NotFoundPin", "", ps, NoValue, <<>>)
  ELSE LET out == backend_set_settings(ps, p, s, event_sink(s), driver_ok, level)
       IN IF ~capability_matches(s.state, capabilities(p))
            THEN [out EXCEPT !.res = "InvalidState", !.msg = "state not supported by pin"]
          ELSE IF ~settings_invariants(s)
            THEN [out EXCEPT !.res = "InvalidState", !.msg = "settings invariant"]
          ELSE out

manager_set_pin_settings(ps, p, s, driver_ok, level) ==
  IF ~pin_config(p) THEN Outcome("NotFoundPin", "", ps, NoValue, <<>>)
  ELSE IF ~capability_matches(s.state, capabilities(p))
    THEN Outcome("InvalidState", "state not supported by pin", ps, NoValue, <<>>)
  ELSE IF ~settings_invariants(s)
    THEN Outcome("InvalidState", "settings invariant", ps, NoValue, <<>>)
  ELSE backend_set_settings(ps, p, s, event_sink(s), driver_ok, level)

\* parse_settings_payload: the fields of the payload over the current settings
Absent == "absent"

SettingsPayload(state, edge, debounce_ms) ==
  [state |-> state, edge |-> edge, debounce_ms |-> debounce_ms]

NoPayload == SettingsPayload(Absent, Absent, NoValue)

parse_settings_payload_reset(payload, current) ==
  IF payload.state = "Disabled" THEN DefaultSettings
  ELSE [state |-> IF payload.state # Absent THEN payload.state ELSE current.state,
        edge |-> IF payload.edge # Absent THEN payload.edge ELSE current.edge,
        debounce_ms |-> IF payload.debounce_ms # NoValue THEN payload.debounce_ms
                        ELSE current.debounce_ms]

parse_settings_payload_over_default(payload, current) ==
  [state |-> IF payload.state # Absent THEN payload.state ELSE DefaultSettings.state,
   edge |-> IF payload.edge # Absent THEN payload.edge ELSE DefaultSettings.edge,
   debounce_ms |-> IF payload.debounce_ms # NoValue THEN payload.debounce_ms
                   ELSE DefaultSettings.debounce_ms]

parse_settings_payload(payload, current) ==
  [state |-> IF payload.state # Absent THEN payload.state ELSE current.state,
   edge |-> IF payload.edge # Absent THEN payload.edge ELSE current.edge,
   debounce_ms |-> IF payload.debounce_ms # NoValue THEN payload.debounce_ms
                   ELSE current.debounce_ms]

manager_read_value(ps, p, driver_ok) == backend_read_value(ps, p, driver_ok)

manager_write_value_nocheck(ps, p, value, t, driver_ok) ==
  backend_write_value(ps, p, value, t, driver_ok)

manager_write_value(ps, p, value, t, driver_ok) ==
  IF value > 1 THEN Outcome("InvalidValue", "value must be 0 or 1", ps, NoValue, <<>>)
  ELSE backend_write_value(ps, p, value, t, driver_ok)

\* the outcomes of the driver: the mock has no driver that can fail
DriverOutcomes == IF backend = "mock" THEN {TRUE} ELSE BOOLEAN

\* the level of a line once it is requested: an output starts inactive, an
\* input reads whatever drives the line
Levels(s) == IF backend = "mock" \/ is_writable(s.state) THEN {0} ELSE {0, 1}

NoList == [p \in {} |-> DefaultSettings]

Ret(op, p, res, msg) ==
  [op |-> op, pin |-> p, settings |-> DefaultSettings, value |-> NoValue,
   res |-> res, msg |-> msg, events |-> <<>>, list |-> NoList, threads |-> <<>>,
   payload |-> NoPayload]

\* ------------------------------------------------ locks and threads
\* the threads that call the backend, and the pins they call it for
CallerIds == {1, 2}

LockPins == {1, 2}

NoThread == 0

ValueOps == {"read_value", "write_value"}

\* the thread spawn_edge_listener starts for pin p
ListenerOf(p) == 10 + p

NoListener == [pc |-> "none", cancel |-> FALSE]

\* the twin backend: its map, and the result and the settings its last call returned
Twin(ps, res, settings) == [pins |-> ps, res |-> res, settings |-> settings]

Unlocked == [owner |-> NoThread, queue |-> <<>>]

Idle ==
  [op |-> "idle", pin |-> 0, settings |-> DefaultSettings, callback |-> FALSE,
   todo |-> <<>>, done |-> <<>>, res |-> "Ok", found |-> FALSE, payload |-> NoPayload]

\* a call that has just been made: its first step takes the lock around the
\* map; found records whether the pin had a listener when the lock was taken
Call(op, p, settings, callback, mode) ==
  [op |-> op, pin |-> p, settings |-> settings, callback |-> callback,
   todo |-> <<mode>>, done |-> <<>>, res |-> "Ok", found |-> FALSE, payload |-> NoPayload]

\* FairMutex: lock takes a free mutex, or parks the thread behind the ones
\* already parked; unlock hands the mutex to the thread parked longest
unlock_unfair(m) == [owner |-> NoThread, queue |-> m.queue]

unlock_fair(m) ==
  IF m.queue = <<>> THEN [owner |-> NoThread, queue |-> <<>>]
  ELSE [owner |-> Head(m.queue), queue |-> Tail(m.queue)]

Parked(m, t) == \E i \in 1..Len(m.queue) : m.queue[i] = t

Unpark(m, t) ==
  [owner |-> t, queue |-> SelectSeq(m.queue, LAMBDA w : w # t)]

\* set_settings, first block: with edge None the listener of an existing
\* entry is taken, cancelled and joined under the entry's lock
stop_ops_no_cancel(ps, p, settings) ==
  IF settings.edge = "None" /\ p \in DOMAIN ps
    THEN <<"entry.lock">> \o (IF ps[p].listener THEN <<"join">> ELSE <<>>)
           \o <<"entry.unlock">>
  ELSE <<>>

stop_ops(ps, p, settings) ==
  IF settings.edge = "None" /\ p \in DOMAIN ps
    THEN <<"entry.lock">> \o (IF ps[p].listener THEN <<"cancel", "join">> ELSE <<>>)
           \o <<"entry.unlock">>
  ELSE <<>>

reconfigure_ops == <<"request.lock", "reconfigure_lines", "request.unlock">>

start_ops_always(current, settings, callback) ==
  IF get_listener(settings.edge, callback) THEN <<"spawn">> ELSE <<>>

start_ops(current, settings, callback) ==
  IF respawn(current, settings.edge, callback) THEN <<"spawn">> ELSE <<>>

\* Entry::Occupied: the lines are reconfigured on the request the handle
\* holds, then a listener is started if the handle has none
occupied_ops_start_first(current, settings, callback) ==
  <<"entry.lock">> \o start_ops(current, settings, callback) \o reconfigure_ops
    \o <<"store", "entry.unlock">>

occupied_ops(current, settings, callback) ==
  <<"entry.lock">> \o reconfigure_ops \o start_ops(current, settings, callback)
    \o <<"store", "entry.unlock">>

\* Entry::Vacant: the lines are requested, the listener started, the handle inserted
vacant_ops_insert_first(settings, callback) ==
  <<"insert", "request_lines">>
    \o (IF get_listener(settings.edge, callback) THEN <<"spawn">> ELSE <<>>)

vacant_ops(settings, callback) ==
  <<"request_lines">> \o (IF get_listener(settings.edge, callback) THEN <<"spawn">> ELSE <<>>)
    \o <<"insert">>

\* what set_settings does to the entry once the listener is stopped
change_ops(ps, p, settings, callback) ==
  IF settings.state = "Disabled"
    THEN IF p \in DOMAIN ps THEN <<"remove">> ELSE <<>>
  ELSE IF p \in DOMAIN ps
    THEN occupied_ops(ps[p].listener /\ settings.edge # "None", settings, callback)
  ELSE vacant_ops(settings, callback)

\* LibgpiodBackend::set_settings under pins.write(), in the order of the code
hw_set_settings_ops_stop_last(ps, p, settings, callback) ==
  change_ops(ps, p, settings, callback) \o stop_ops(ps, p, settings)
    \o <<"pins.unlock", "return">>

hw_set_settings_ops(ps, p, settings, callback) ==
  stop_ops(ps, p, settings) \o change_ops(ps, p, settings, callback)
    \o <<"pins.unlock", "return">>

\* LibgpiodBackend::read_value and write_value under pins.read()
hw_value_ops(ps, p, op) ==
  IF p \notin DOMAIN ps THEN <<"pins.unlock", "return">>
  ELSE IF op = "write_value" /\ ~is_writable(ps[p].settings.state)
    THEN <<"entry.lock", "entry.unlock", "pins.unlock", "return">>
  ELSE <<"entry.lock", "request.lock", "value", "request.unlock", "entry.unlock",
         "pins.unlock", "return">>

\* the mock's calls: the entry is locked and read or changed in place
mock_ops(ps, p, op) ==
  IF op # "set_settings" /\ p \notin DOMAIN ps THEN <<"pins.unlock", "return">>
  ELSE <<"entry.lock", "entry", "entry.unlock", "pins.unlock", "return">>

\* how each call takes the lock around the map
lock_mode(kind, op) ==
  IF kind = "mock" \/ op = "set_settings" THEN "pins.write" ELSE "pins.read"

\* what is left of a call once it holds the lock around the map
ops_under_lock(kind, ps, call) ==
  IF kind = "mock" THEN mock_ops(ps, call.pin, call.op)
  ELSE IF call.op = "set_settings"
    THEN hw_set_settings_ops(ps, call.pin, call.settings, call.callback)
  ELSE hw_value_ops(ps, call.pin, call.op)

\* the result the call will return unless a driver call fails
res_under_lock(kind, ps, call) ==
  IF call.op = "set_settings" THEN "Ok"
  ELSE IF call.op = "read_value"
    THEN IF kind = "mock" THEN mock_read_value(ps, call.pin).res
         ELSE hw_read_value(ps, call.pin, TRUE).res
  ELSE IF kind = "mock" THEN mock_write_value(ps, call.pin, 1, 0).res
  ELSE hw_write_value(ps, call.pin, 1, TRUE).res

\* the guards dropped, innermost first, when a call returns early with an error
unwind(todo) ==
  SelectSeq(todo, LAMBDA i : i \in {"request.unlock", "entry.unlock", "pins.unlock", "return"})

\* ---------------------------------------------------------------- Init
\* the state after GpioManager::new over a fresh backend
Constructed ==
  /\ pins = [p \in {} |-> Entry(DefaultSettings, 0, FALSE, NoInstant, FALSE)]
  /\ history = [p \in Declared |-> <<>>]
  /\ now = 0
  /\ ret = Ret("new", 0, "Ok", "")
  /\ last_set = [p \in Declared |-> "none"]
  /\ written = [p \in Declared |-> NoValue]
  /\ dispatched = [p \in Declared |-> <<>>]
  /\ bus = <<>>
  /\ subs = [k \in {} |-> Subscriber(1, NoFilter)]
  /\ live = [p \in Declared |-> 0]
  /\ lifecycle = [p \in Declared |-> <<>>]
  /\ matched = [p \in Declared |-> NoMatch]
  /\ registry = [writer |-> NoThread, readers |-> {}]
  /\ slot = [p \in LockPins |-> NoThread]
  /\ request = [p \in LockPins |-> Unlocked]
  /\ calls = [c \in CallerIds |-> Idle]
  /\ listeners = [p \in LockPins |-> NoListener]
  /\ twin = Twin([p \in {} |-> Entry(DefaultSettings, 0, FALSE, NoInstant, FALSE)],
                 "Ok", DefaultSettings)

Init ==
  /\ backend \in {"mock", "libgpiod"}
  /\ capacity = MaxCapacity
  /\ broadcast_capacity = MaxBroadcast
  /\ Constructed

\* the effect of a backend call on the backend map and on the dispatcher
Apply(out) ==
  /\ pins' = out.pins
  /\ history' = dispatch_all(history, capacity, out.events)
  /\ bus' = publish_all(bus, history, out.events)
  /\ dispatched' = log_all(dispatched, out.events)
  /\ live' = count_all(live, out.threads)

Prefix(h, n) == IF n >= Len(h) THEN h ELSE SubSeq(h, 1, n)

Suffix(h, n) == IF n >= Len(h) THEN h ELSE SubSeq(h, Len(h) - n + 1, Len(h))

\* ------------------------------------------------------------- actions
list_pins_of_backend ==
  /\ ret' = [Ret("list_pins", 0, "Ok", "") EXCEPT
               !.list = [p \in DOMAIN pins |-> backend_get_settings(pins, p)]]
  /\ UNCHANGED <<twin, lock_vars, backend, capacity, pins, history, now, last_set, written, dispatched,
               broadcast_capacity, bus, subs, live, lifecycle, matched>>

list_pins ==
  /\ ret' = [Ret("list_pins", 0, "Ok", "") EXCEPT
               !.list = [p \in Declared |-> backend_get_settings(pins, p)]]
  /\ UNCHANGED <<twin, lock_vars, backend, capacity, pins, history, now, last_set, written, dispatched,
               broadcast_capacity, bus, subs, live, lifecycle, matched>>

get_pin_info(p) ==
  /\ ret' = IF ~pin_config(p) THEN Ret("get_pin_info", p, "NotFoundPin", "")
            ELSE [Ret("get_pin_info", p, "Ok", "") EXCEPT
                    !.settings = backend_get_settings(pins, p)]
  /\ UNCHANGED <<twin, lock_vars, backend, capacity, pins, history, now, last_set, written, dispatched,
               broadcast_capacity, bus, subs, live, lifecycle, matched>>

get_pin_descriptor(p) ==
  /\ ret' = IF ~pin_config(p) THEN Ret("get_pin_descriptor", p, "NotFoundPin", "")
            ELSE [Ret("get_pin_descriptor", p, "Ok", "") EXCEPT
                    !.settings = backend_get_settings(pins, p)]
  /\ UNCHANGED <<twin, lock_vars, backend, capacity, pins, history, now, last_set, written, dispatched,
               broadcast_capacity, bus, subs, live, lifecycle, matched>>

get_pin_settings(p) ==
  /\ ret' = [Ret("get_pin_settings", p, "Ok", "") EXCEPT
               !.settings = backend_get_settings(pins, p)]
  /\ UNCHANGED <<twin, lock_vars, backend, capacity, pins, history, now, last_set, written, dispatched,
               broadcast_capacity, bus, subs, live, lifecycle, matched>>

set_pin_settings(p, s) ==
  \E driver_ok \in DriverOutcomes, level \in Levels(s) :
    LET out == manager_set_pin_settings(pins, p, s, driver_ok, level)
    IN /\ Apply(out)
       /\ ret' = [Ret("set_pin_settings", p, out.res, out.msg) EXCEPT !.settings = s]
       /\ last_set' = IF out.res = "Ok" /\ p \in Declared
                        THEN [last_set EXCEPT ![p] = IF s.state = "Disabled" THEN "disabled"
                                                     ELSE "enabled"]
                      ELSE last_set
       /\ written' = IF p \in Declared THEN [written EXCEPT ![p] = NoValue] ELSE written
       /\ UNCHANGED <<twin, lock_vars, backend, capacity, now, broadcast_capacity, subs, lifecycle, matched>>

\* POST /gpio/{id}/settings: read the current settings, merge the payload
\* over them, set the merged settings and answer with them
post_settings(p, payload, well_formed) ==
  \E driver_ok \in DriverOutcomes,
     level \in Levels(parse_settings_payload(payload, backend_get_settings(pins, p))) :
    LET current == backend_get_settings(pins, p)
        merged == parse_settings_payload(payload, current)
        out == IF well_formed
                 THEN manager_set_pin_settings(pins, p, merged, driver_ok, level)
               ELSE Outcome("InvalidValue", "Invalid settings payload", pins, NoValue, <<>>)
    IN /\ Apply(out)
       /\ ret' = [Ret("post_settings", p, out.res, out.msg) EXCEPT
                    !.settings = IF out.res = "Ok" THEN merged ELSE DefaultSettings,
                    !.payload = payload]
       /\ last_set' = IF out.res = "Ok" /\ p \in Declared
                        THEN [last_set EXCEPT ![p] = IF merged.state = "Disabled" THEN "disabled"
                                                     ELSE "enabled"]
                      ELSE last_set
       /\ written' = IF p \in Declared /\ well_formed THEN [written EXCEPT ![p] = NoValue]
                     ELSE written
       /\ UNCHANGED <<twin, lock_vars, backend, capacity, now, broadcast_capacity, subs, lifecycle, matched>>

read_value(p) ==
  \E driver_ok \in DriverOutcomes :
    LET out == manager_read_value(pins, p, driver_ok)
    IN /\ ret' = [Ret("read_value", p, out.res, out.msg) EXCEPT !.value = out.value]
       /\ UNCHANGED <<twin, lock_vars, backend, capacity, pins, history, now, last_set, written, dispatched,
               broadcast_capacity, bus, subs, live, lifecycle, matched>>

write_value(p, v) ==
  \E driver_ok \in DriverOutcomes :
    LET out == manager_write_value(pins, p, v, now, driver_ok)
    IN /\ Apply(out)
       /\ ret' = [Ret("write_value", p, out.res, out.msg) EXCEPT !.value = v]
       /\ written' = IF out.res = "Ok" /\ p \in Declared THEN [written EXCEPT ![p] = v]
                     ELSE written
       /\ UNCHANGED <<twin, lock_vars, backend, capacity, now, last_set, broadcast_capacity, subs, lifecycle, matched>>

NoLimit == -1

manager_get_events(hist, p, limit) ==
  IF limit = NoLimit THEN hist[p] ELSE Suffix(hist[p], limit)

get_events(p, limit) ==
  /\ ret' = IF p \notin DOMAIN history THEN Ret("get_events", p, "NotFoundPin", "")
            ELSE [Ret("get_events", p, "Ok", "") EXCEPT
                    !.value = limit,
                    !.events = manager_get_events(history, p, limit)]
  /\ UNCHANGED <<twin, lock_vars, backend, capacity, pins, history, now, last_set, written, dispatched,
               broadcast_capacity, bus, subs, live, lifecycle, matched>>

\* the newest retained event, or none
manager_get_last_event(hist, p) ==
  IF hist[p] = <<>> THEN <<>> ELSE <<hist[p][Len(hist[p])]>>

get_last_event(p) ==
  /\ ret' = IF p \notin DOMAIN history THEN Ret("get_last_event", p, "NotFoundPin", "")
            ELSE [Ret("get_last_event", p, "Ok", "") EXCEPT
                    !.events = manager_get_last_event(history, p)]
  /\ UNCHANGED <<twin, lock_vars, backend, capacity, pins, history, now, last_set, written, dispatched,
               broadcast_capacity, bus, subs, live, lifecycle, matched>>

\* GET /gpios/events: subscribe, then upgrade the request to a websocket
\* session that forwards every event
events_ws_all(k, handshake_ok) ==
  /\ k \notin DOMAIN subs
  /\ LET rx == [Subscriber(subscribe_events(bus), NoFilter) EXCEPT !.since = Len(bus)]
     IN IF handshake_ok
          THEN /\ subs' = Put(subs, k, rx)
               /\ ret' = [Ret("events_ws_all", 0, "Ok", "") EXCEPT !.value = k]
        ELSE /\ subs' = subs
             /\ ret' = [Ret("events_ws_all", 0, "Gpio", "Websocket error") EXCEPT !.value = k]
  /\ UNCHANGED <<twin, lock_vars, backend, capacity, pins, history, now, last_set, written, dispatched,
               broadcast_capacity, bus, live, lifecycle, matched>>

\* one round of a session's loop in which the receive end yields something
ws_next(k, session_ok) ==
  /\ k \in DOMAIN subs
  /\ LET item == bus_next(bus, broadcast_capacity, subs[k])
         after == handle_event(subs[k], item, session_ok)
         wrote == item.kind = "Lagged" \/ ws_deliver(subs[k].pin_filter, item.event)
     IN /\ item.kind # "Pending"
        /\ subs' = IF after.open THEN Put(subs, k, after.sub) ELSE Remove(subs, k)
        /\ ret' = [Ret("ws_next", 0, IF wrote /\ ~session_ok THEN "Disconnected" ELSE "Ok",
                       item.kind)
                     EXCEPT !.value = k]
  /\ UNCHANGED <<twin, lock_vars, backend, capacity, pins, history, now, last_set, written, dispatched,
               broadcast_capacity, bus, live, lifecycle, matched>>

\* one round of a session's loop in which the client closes the stream
ws_close(k) ==
  /\ k \in DOMAIN subs
  /\ subs' = Remove(subs, k)
  /\ ret' = [Ret("ws_close", 0, "Closed", "") EXCEPT !.value = k]
  /\ UNCHANGED <<twin, lock_vars, backend, capacity, pins, history, now, last_set, written, dispatched,
               broadcast_capacity, bus, live, lifecycle, matched>>

\* one round of a pin's edge listener: the line changes level, the kernel
\* reports the edge, stamped with its clock, when it matches the configured
\* detection, and the listener hands it to the callback.  Edges happen at
\* distinct instants.
edge_listener(p) ==
  /\ backend = "libgpiod"
  /\ p \in DOMAIN pins
  /\ is_edge_detectable(pins[p].settings.state)
  /\ now < MaxEvents
  /\ LET level == 1 - pins[p].value
         edge_kind == IF level = 1 THEN "Rising" ELSE "Falling"
         events == IF pins[p].listener /\ edge_matches(pins[p].settings.edge, edge_kind)
                     THEN <<EdgeEvent(p, edge_kind, now)>>
                   ELSE <<>>
     IN /\ Apply(Outcome("Ok", "", [pins EXCEPT ![p].value = level], NoValue, events))
        /\ ret' = [Ret("edge_listener", p, "Ok", "") EXCEPT !.events = events]
  /\ now' = now + 1
  /\ UNCHANGED <<twin, lock_vars, backend, capacity, last_set, written, broadcast_capacity, subs, lifecycle, matched>>

\* --------------------------------------------------------- specifications
\* the settings the manager is called with: every state, with edge detection
\* off and on, with and without a debounce period
EdgeDebounceInputs ==
  {<<"None", 0>>, <<"None", MaxDebounce>>, <<"Rising", 0>>, <<"Both", MaxDebounce>>}

SettingsInputs == {s \in PinSettings : <<s.edge, s.debounce_ms>> \in EdgeDebounceInputs}

\* the manager's API as the routes call it
Next ==
  \/ list_pins
  \/ \E p \in PinIds : get_pin_info(p)
  \/ \E p \in PinIds : get_pin_descriptor(p)
  \/ \E p \in PinIds : get_pin_settings(p)
  \/ \E p \in PinIds, s \in SettingsInputs : set_pin_settings(p, s)
  \/ \E p \in PinIds : read_value(p)
  \/ \E p \in PinIds, v \in 0..MaxValue : write_value(p, v)

Spec == Init /\ [][Next]_vars

\* the GpioBackend trait of the kernel backend, called directly
BackendPins == {1}

InitBackend ==
  /\ backend = "libgpiod"
  /\ capacity = MaxCapacity
  /\ broadcast_capacity = MaxBroadcast
  /\ Constructed

set_settings(p, s, sink) ==
  \E driver_ok \in DriverOutcomes, level \in Levels(s) :
    LET out == backend_set_settings(pins, p, s, sink, driver_ok, level)
    IN /\ Apply(out)
       /\ ret' = [Ret("set_settings", p, out.res, out.msg) EXCEPT !.settings = s]
       /\ matched' = [matched EXCEPT ![p] = NoMatch]
       /\ UNCHANGED <<twin, lock_vars, backend, capacity, now, last_set, written, broadcast_capacity, subs,
                      lifecycle>>

\* set_settings with the listener thread operations it performs put on record
set_settings_traced(p, s, sink) ==
  \E driver_ok \in DriverOutcomes, level \in Levels(s) :
    LET out == backend_set_settings(pins, p, s, sink, driver_ok, level)
    IN /\ Apply(out)
       /\ ret' = [Ret("set_settings", p, out.res, out.msg) EXCEPT
                    !.settings = s, !.threads = out.threads]
       /\ lifecycle' = record_all(lifecycle, out.threads)
       /\ UNCHANGED <<twin, lock_vars, backend, capacity, now, last_set, written, broadcast_capacity, subs, matched>>

get_settings(p) ==
  /\ ret' = [Ret("get_settings", p, "Ok", "") EXCEPT
               !.settings = backend_get_settings(pins, p)]
  /\ UNCHANGED <<twin, lock_vars, backend, capacity, pins, history, now, last_set, written, dispatched,
               broadcast_capacity, bus, subs, live, lifecycle, matched>>

backend_read(p) ==
  \E driver_ok \in DriverOutcomes :
    LET out == backend_read_value(pins, p, driver_ok)
    IN /\ ret' = [Ret("backend_read", p, out.res, out.msg) EXCEPT !.value = out.value]
       /\ UNCHANGED <<twin, lock_vars, backend, capacity, pins, history, now, last_set, written, dispatched,
               broadcast_capacity, bus, subs, live, lifecycle, matched>>

backend_write(p, v) ==
  \E driver_ok \in DriverOutcomes :
    LET out == backend_write_value(pins, p, v, now, driver_ok)
        edge_kind == IF p \notin DOMAIN pins THEN "None"
                     ELSE IF pins[p].value = 0 /\ v = 1 THEN "Rising"
                     ELSE IF pins[p].value = 1 /\ v = 0 THEN "Falling"
                     ELSE "None"
    IN /\ Len(bus) < MaxCapacity
       /\ Apply(out)
       /\ ret' = [Ret("backend_write", p, out.res, out.msg) EXCEPT
                    !.value = v, !.events = out.events]
       /\ matched' = IF /\ out.res = "Ok"
                        /\ edge_kind # "None"
                        /\ edge_matches(pins[p].settings.edge, edge_kind)
                       THEN [matched EXCEPT ![p] = [t |-> now, fired |-> out.events # <<>>]]
                     ELSE matched
       /\ UNCHANGED <<twin, lock_vars, backend, capacity, now, last_set, written, broadcast_capacity, subs,
                      lifecycle>>

\* the clock advances by a millisecond
Tick ==
  /\ now < MaxTime
  /\ now' = now + 1
  /\ ret' = Ret("tick", 0, "Ok", "")
  /\ UNCHANGED <<twin, lock_vars, backend, capacity, pins, history, last_set, written, dispatched,
               broadcast_capacity, bus, subs, live, lifecycle, matched>>

NextBackend ==
  \/ \E p \in BackendPins, s \in PinSettings, sink \in BOOLEAN : set_settings(p, s, sink)
  \/ \E p \in BackendPins : get_settings(p)
  \/ \E p \in BackendPins : backend_read(p)
  \/ \E p \in BackendPins, v \in 0..MaxValue : backend_write(p, v)

SpecBackend == InitBackend /\ [][NextBackend]_vars

\* the settings routes: payloads with each field present or absent
PayloadInputs ==
  {SettingsPayload(st, e, d) :
     st \in {Absent, "Disabled", "PushPull", "Floating"},
     e \in {Absent, "None", "Both"},
     d \in {NoValue, 0, MaxDebounce}}

NextRoutes ==
  \/ \E p \in PinIds, payload \in PayloadInputs : post_settings(p, payload, TRUE)
  \/ \E p \in PinIds : post_settings(p, NoPayload, FALSE)
  \/ \E p \in PinIds : get_pin_settings(p)

SpecRoutes == Init /\ [][NextRoutes]_vars

\* the GpioBackend trait of the mock, called directly, as time passes
MockSettingsInputs ==
  {s \in SettingsInputs : s.state \in {"Disabled", "PushPull"}}

MockValues == {0, 1, MaxValue}

InitMock ==
  /\ backend = "mock"
  /\ capacity = MaxCapacity
  /\ broadcast_capacity = MaxBroadcast
  /\ Constructed

NextMock ==
  \/ \E p \in BackendPins, s \in MockSettingsInputs, sink \in BOOLEAN : set_settings(p, s, sink)
  \/ \E p \in BackendPins : get_settings(p)
  \/ \E p \in BackendPins : backend_read(p)
  \/ \E p \in BackendPins, v \in MockValues : backend_write(p, v)
  \/ Tick

SpecMock == InitMock /\ [][NextMock]_vars

\* ------------------------------------------- the backend, lock by lock
\* every variable the locks and threads leave alone
api_vars == <<capacity, history, now, ret, last_set, written, dispatched,
              broadcast_capacity, bus, subs, lifecycle, matched>>

Doing(c, instr) == calls[c].todo # <<>> /\ Head(calls[c].todo) = instr

Advance(c) ==
  [calls EXCEPT ![c].todo = Tail(@), ![c].done = Append(@, Head(calls[c].todo))]

\* the call returns early: the error is recorded and only the guards are left to drop
Fail(c, res) ==
  [calls EXCEPT ![c].todo = unwind(Tail(@)), ![c].done = Append(@, Head(calls[c].todo)),
                ![c].res = res]

\* a thread calls set_settings: the kernel backend validates before it takes
\* any lock, and returns at once when the settings are invalid
call_set_settings(c, p, s) ==
  /\ backend \in {"mock", "libgpiod"}
  /\ calls[c].op = "idle"
  /\ calls' = IF backend = "libgpiod" /\ validate_pin_settings(s) # "Ok" THEN calls
              ELSE [calls EXCEPT ![c] = Call("set_settings", p, s, TRUE,
                                             lock_mode(backend, "set_settings"))]
  /\ UNCHANGED <<twin, api_vars, backend, pins, live, registry, slot, request, listeners>>

\* a thread calls read_value or write_value
call_value(c, p, op) ==
  /\ backend \in {"mock", "libgpiod"}
  /\ calls[c].op = "idle"
  /\ calls' = [calls EXCEPT ![c] = Call(op, p, DefaultSettings, FALSE, lock_mode(backend, op))]
  /\ UNCHANGED <<twin, api_vars, backend, pins, live, registry, slot, request, listeners>>

\* pins.write() / pins.read(): the rest of the call is decided by the map it finds
acquire_registry(c) ==
  /\ \/ /\ Doing(c, "pins.write")
        /\ registry.writer = NoThread
        /\ registry.readers = {}
        /\ registry' = [registry EXCEPT !.writer = c]
     \/ /\ Doing(c, "pins.read")
        /\ registry.writer = NoThread
        /\ registry' = [registry EXCEPT !.readers = @ \cup {c}]
  /\ calls' = [calls EXCEPT ![c].todo = ops_under_lock(backend, pins, calls[c]),
                            ![c].done = <<Head(calls[c].todo)>>,
                            ![c].res = res_under_lock(backend, pins, calls[c]),
                            ![c].found = calls[c].pin \in DOMAIN pins
                                           /\ pins[calls[c].pin].listener]
  /\ UNCHANGED <<twin, api_vars, backend, pins, live, slot, request, listeners>>

lock_entry(c) ==
  /\ Doing(c, "entry.lock")
  /\ slot[calls[c].pin] = NoThread
  /\ slot' = [slot EXCEPT ![calls[c].pin] = c]
  /\ calls' = Advance(c)
  /\ UNCHANGED <<twin, api_vars, backend, pins, live, registry, request, listeners>>

unlock_entry(c) ==
  /\ Doing(c, "entry.unlock")
  /\ slot' = [slot EXCEPT ![calls[c].pin] = NoThread]
  /\ calls' = Advance(c)
  /\ UNCHANGED <<twin, api_vars, backend, pins, live, registry, request, listeners>>

\* stop_edge_listener: cancel.store(true) ...
cancel_listener(c) ==
  /\ Doing(c, "cancel")
  /\ listeners' = [listeners EXCEPT ![calls[c].pin].cancel = TRUE]
  /\ calls' = Advance(c)
  /\ UNCHANGED <<twin, api_vars, backend, pins, live, registry, slot, request>>

\* ... and block_on(handle): the caller waits until the thread has left its loop
join_listener(c) ==
  /\ Doing(c, "join")
  /\ listeners[calls[c].pin].pc = "done"
  /\ listeners' = [listeners EXCEPT ![calls[c].pin] = NoListener]
  /\ pins' = [pins EXCEPT ![calls[c].pin].listener = FALSE]
  /\ live' = [live EXCEPT ![calls[c].pin] = @ - 1]
  /\ calls' = Advance(c)
  /\ UNCHANGED <<twin, api_vars, backend, registry, slot, request>>

remove_entry(c) ==
  /\ Doing(c, "remove")
  /\ pins' = Remove(pins, calls[c].pin)
  /\ calls' = Advance(c)
  /\ UNCHANGED <<twin, api_vars, backend, live, registry, slot, request, listeners>>

\* request.lock(): taken when free or handed over, parked behind the owner otherwise
lock_request(c) ==
  /\ Doing(c, "request.lock")
  /\ LET m == request[calls[c].pin]
     IN \/ /\ m.owner \in {NoThread, c}
           /\ request' = [request EXCEPT ![calls[c].pin] = Unpark(m, c)]
           /\ calls' = Advance(c)
        \/ /\ m.owner \notin {NoThread, c}
           /\ ~Parked(m, c)
           /\ request' = [request EXCEPT ![calls[c].pin].queue = Append(@, c)]
           /\ UNCHANGED calls
  /\ UNCHANGED <<twin, api_vars, backend, pins, live, registry, slot, listeners>>

unlock_request(c) ==
  /\ Doing(c, "request.unlock")
  /\ request' = [request EXCEPT ![calls[c].pin] = unlock_fair(@)]
  /\ calls' = Advance(c)
  /\ UNCHANGED <<twin, api_vars, backend, pins, live, registry, slot, listeners>>

reconfigure_lines(c) ==
  /\ Doing(c, "reconfigure_lines")
  /\ \E driver_ok \in DriverOutcomes :
       calls' = IF driver_ok THEN Advance(c) ELSE Fail(c, "Gpio")
  /\ UNCHANGED <<twin, api_vars, backend, pins, live, registry, slot, request, listeners>>

request_lines(c) ==
  /\ Doing(c, "request_lines")
  /\ \E driver_ok \in DriverOutcomes :
       calls' = IF driver_ok THEN Advance(c) ELSE Fail(c, "Gpio")
  /\ UNCHANGED <<twin, api_vars, backend, pins, live, registry, slot, request, listeners>>

\* spawn_edge_listener: a thread enters the listener loop
spawn_listener(c) ==
  /\ Doing(c, "spawn")
  /\ listeners' = [listeners EXCEPT ![calls[c].pin] = [pc |-> "check", cancel |-> FALSE]]
  /\ live' = [live EXCEPT ![calls[c].pin] = @ + 1]
  /\ pins' = IF calls[c].pin \in DOMAIN pins
               THEN [pins EXCEPT ![calls[c].pin].listener = TRUE]
             ELSE pins
  /\ calls' = Advance(c)
  /\ UNCHANGED <<twin, api_vars, backend, registry, slot, request>>

\* handle.settings = settings.clone()
store_settings(c) ==
  /\ Doing(c, "store")
  /\ pins' = [pins EXCEPT ![calls[c].pin].settings = calls[c].settings]
  /\ calls' = Advance(c)
  /\ UNCHANGED <<twin, api_vars, backend, live, registry, slot, request, listeners>>

insert_entry(c) ==
  /\ Doing(c, "insert")
  /\ pins' = Put(pins, calls[c].pin,
                 Entry(calls[c].settings, 0, FALSE, NoInstant,
                       \E i \in 1..Len(calls[c].done) : calls[c].done[i] = "spawn"))
  /\ calls' = Advance(c)
  /\ UNCHANGED <<twin, api_vars, backend, live, registry, slot, request, listeners>>

\* request.value(line) / request.set_value(line, value)
line_value(c) ==
  /\ Doing(c, "value")
  /\ \E driver_ok \in DriverOutcomes :
       /\ calls' = IF driver_ok THEN Advance(c) ELSE Fail(c, "Gpio")
       /\ pins' = IF calls[c].op = "write_value"
                    THEN hw_write_value(pins, calls[c].pin, 1, driver_ok).pins
                  ELSE pins
  /\ UNCHANGED <<twin, api_vars, backend, live, registry, slot, request, listeners>>

\* the mock's work on the locked entry
mock_entry(c) ==
  /\ Doing(c, "entry")
  /\ Apply(IF calls[c].op = "set_settings"
             THEN mock_set_settings(pins, calls[c].pin, calls[c].settings, calls[c].callback)
           ELSE IF calls[c].op = "write_value"
             THEN mock_write_value(pins, calls[c].pin, 1, now)
           ELSE mock_read_value(pins, calls[c].pin))
  /\ calls' = Advance(c)
  /\ UNCHANGED <<twin, backend, capacity, now, ret, last_set, written, broadcast_capacity, subs,
                 lifecycle, matched, registry, slot, request, listeners>>

unlock_registry(c) ==
  /\ Doing(c, "pins.unlock")
  /\ registry' = [writer |-> IF registry.writer = c THEN NoThread ELSE registry.writer,
                  readers |-> registry.readers \ {c}]
  /\ calls' = Advance(c)
  /\ UNCHANGED <<twin, api_vars, backend, pins, live, slot, request, listeners>>

return_call(c) ==
  /\ Doing(c, "return")
  /\ calls' = [calls EXCEPT ![c] = Idle]
  /\ UNCHANGED <<twin, api_vars, backend, pins, live, registry, slot, request, listeners>>

listener_try_lock_blind(p) ==
  /\ listeners[p].pc = "check"
  /\ request[p].owner = NoThread
  /\ request' = [request EXCEPT ![p].owner = ListenerOf(p)]
  /\ listeners' = [listeners EXCEPT ![p].pc = "wait"]
  /\ UNCHANGED <<twin, api_vars, backend, pins, live, registry, slot, calls>>

\* the listener loop: while the cancel flag is clear, try_lock on the request
\* (a failed try_lock yields and comes back to the top of the loop, which
\* changes nothing) ...
listener_try_lock(p) ==
  /\ listeners[p].pc = "check"
  /\ ~listeners[p].cancel
  /\ request[p].owner = NoThread
  /\ request' = [request EXCEPT ![p].owner = ListenerOf(p)]
  /\ listeners' = [listeners EXCEPT ![p].pc = "wait"]
  /\ UNCHANGED <<twin, api_vars, backend, pins, live, registry, slot, calls>>

\* ... wait_edge_events returns, with events for the callback, on its
\* timeout or with an error, and in each case the guard is dropped and the
\* loop comes back to the test of the cancel flag ...
listener_wait(p) ==
  /\ listeners[p].pc = "wait"
  /\ request' = [request EXCEPT ![p] = unlock_fair(@)]
  /\ listeners' = [listeners EXCEPT ![p].pc = "check"]
  /\ UNCHANGED <<twin, api_vars, backend, pins, live, registry, slot, calls>>

\* ... and the loop ends when the cancel flag is found set
listener_exit(p) ==
  /\ listeners[p].pc = "check"
  /\ listeners[p].cancel
  /\ listeners' = [listeners EXCEPT ![p].pc = "done"]
  /\ UNCHANGED <<twin, api_vars, backend, pins, live, registry, slot, request, calls>>

\* the backend is dropped at shutdown: the map and its handles go; neither
\* PinHandle nor EdgeListener implements Drop, so a listener's cancel flag is
\* not set and its JoinHandle is dropped without a join
drop_backend ==
  /\ backend \in {"mock", "libgpiod"}
  /\ \A c \in CallerIds : calls[c].op = "idle"
  /\ backend' = "dropped"
  /\ pins' = [p \in {} |-> Entry(DefaultSettings, 0, FALSE, NoInstant, FALSE)]
  /\ UNCHANGED <<twin, api_vars, live, registry, slot, request, calls, listeners>>

LockSettingsInputs ==
  {s \in PinSettings : /\ s.debounce_ms = 0
                       /\ \/ s.state = "Floating" /\ s.edge \in {"None", "Rising", "Both"}
                          \/ s.state = "Disabled" /\ s.edge \in {"None", "Rising"}}

CallerStep(c) ==
  \/ \E p \in LockPins, s \in LockSettingsInputs : call_set_settings(c, p, s)
  \/ \E p \in LockPins, op \in ValueOps : call_value(c, p, op)
  \/ acquire_registry(c)
  \/ lock_entry(c)
  \/ unlock_entry(c)
  \/ cancel_listener(c)
  \/ join_listener(c)
  \/ remove_entry(c)
  \/ lock_request(c)
  \/ unlock_request(c)
  \/ reconfigure_lines(c)
  \/ request_lines(c)
  \/ spawn_listener(c)
  \/ store_settings(c)
  \/ insert_entry(c)
  \/ line_value(c)
  \/ mock_entry(c)
  \/ unlock_registry(c)
  \/ return_call(c)

ListenerStep(p) ==
  \/ listener_try_lock(p)
  \/ listener_wait(p)
  \/ listener_exit(p)

NextLocks ==
  \/ \E c \in CallerIds : CallerStep(c)
  \/ \E p \in LockPins : ListenerStep(p)
  \/ drop_backend

SpecLocks == Init /\ [][NextLocks]_vars

\* one pin of the kernel backend with its listener and the callers, every
\* thread that can run being run sooner or later
FairPins == {1}

\* the steps that carry a call on, once made
Progress(c) ==
  \/ acquire_registry(c)
  \/ lock_entry(c)
  \/ unlock_entry(c)
  \/ cancel_listener(c)
  \/ join_listener(c)
  \/ remove_entry(c)
  \/ lock_request(c)
  \/ unlock_request(c)
  \/ reconfigure_lines(c)
  \/ request_lines(c)
  \/ spawn_listener(c)
  \/ store_settings(c)
  \/ insert_entry(c)
  \/ line_value(c)
  \/ unlock_registry(c)
  \/ return_call(c)

NextFair ==
  \/ \E c \in CallerIds, p \in FairPins, s \in LockSettingsInputs : call_set_settings(c, p, s)
  \/ \E c \in CallerIds, p \in FairPins, op \in ValueOps : call_value(c, p, op)
  \/ \E c \in CallerIds : Progress(c)
  \/ \E p \in FairPins : ListenerStep(p)

Fairness ==
  /\ \A c \in CallerIds : WF_vars(Progress(c))
  /\ \A p \in FairPins : WF_vars(ListenerStep(p))

SpecFair == InitBackend /\ [][NextFair]_vars /\ Fairness

\* the kernel backend with edge detection switched on and off
ListenerSettingsInputs ==
  {s \in PinSettings : /\ s.state \in {"Disabled", "Floating", "PullUp", "PushPull"}
                       /\ s.edge \in {"None", "Rising", "Falling"}}

NextListener ==
  \/ \E p \in BackendPins, s \in ListenerSettingsInputs, sink \in BOOLEAN :
       set_settings_traced(p, s, sink)
  \/ \E p \in BackendPins : get_settings(p)

SpecListener == InitBackend /\ [][NextListener]_vars

\* the kernel backend with edges arriving on the lines
EventSettingsInputs ==
  {s \in PinSettings : /\ s.state \in {"Disabled", "Floating"}
                       /\ s.debounce_ms = 0
                       /\ s.state = "Disabled" => s.edge = "None"}

Limits == {NoLimit, 1, MaxCapacity - 1}

InitEvents ==
  /\ backend = "libgpiod"
  /\ capacity \in {1, MaxCapacity}
  /\ broadcast_capacity = MaxBroadcast
  /\ Constructed

NextEvents ==
  \/ \E p \in Declared, s \in EventSettingsInputs : set_pin_settings(p, s)
  \/ \E p \in Declared : edge_listener(p)
  \/ \E p \in PinIds, limit \in Limits : get_events(p, limit)

SpecEvents == InitEvents /\ [][NextEvents]_vars

\* the kernel backend with websocket subscribers on the broadcast bus
SubscriberIds == {1, 2}

BusPins == {2}

BusSettingsInputs == {[state |-> "Floating", edge |-> "Both", debounce_ms |-> 0]}

InitBus ==
  /\ backend = "libgpiod"
  /\ capacity = MaxCapacity
  /\ broadcast_capacity \in {1, MaxBroadcast}
  /\ Constructed

NextBus ==
  \/ \E p \in BusPins, s \in BusSettingsInputs : set_pin_settings(p, s)
  \/ \E p \in BusPins : edge_listener(p)
  \/ \E k \in SubscriberIds, handshake_ok \in BOOLEAN : events_ws_all(k, handshake_ok)
  \/ \E k \in SubscriberIds, session_ok \in BOOLEAN : ws_next(k, session_ok)
  \/ \E k \in SubscriberIds : ws_close(k)
  \/ \E p \in BusPins : get_last_event(p)

SpecBus == InitBus /\ [][NextBus]_vars

\* the settings route, statement by statement, with requests served by
\* several workers at once: a request reads the current settings, and then
\* merges its payload over what it read and sets the merged settings
post_ops == <<"get_pin_settings", "set_pin_settings", "return">>

post_call(c, p, payload) ==
  /\ calls[c].op = "idle"
  /\ calls' = [calls EXCEPT ![c] = [Idle EXCEPT !.op = "post_settings", !.pin = p,
                                                !.payload = payload, !.todo = post_ops]]
  /\ UNCHANGED <<twin, api_vars, backend, pins, live, registry, slot, request, listeners>>

post_read(c) ==
  /\ calls[c].op = "post_settings"
  /\ Doing(c, "get_pin_settings")
  /\ calls' = [Advance(c) EXCEPT ![c].settings = backend_get_settings(pins, calls[c].pin)]
  /\ UNCHANGED <<twin, api_vars, backend, pins, live, registry, slot, request, listeners>>

post_apply(c) ==
  /\ calls[c].op = "post_settings"
  /\ Doing(c, "set_pin_settings")
  /\ LET p == calls[c].pin
         merged == parse_settings_payload(calls[c].payload, calls[c].settings)
     IN \E driver_ok \in DriverOutcomes, level \in Levels(merged) :
          LET out == manager_set_pin_settings(pins, p, merged, driver_ok, level)
          IN /\ Apply(out)
             /\ ret' = [Ret("post_settings", p, out.res, out.msg) EXCEPT
                          !.settings = IF out.res = "Ok" THEN merged ELSE DefaultSettings,
                          !.payload = calls[c].payload]
             /\ last_set' = IF out.res = "Ok" /\ p \in Declared
                              THEN [last_set EXCEPT ![p] = IF merged.state = "Disabled"
                                                             THEN "disabled"
                                                           ELSE "enabled"]
                            ELSE last_set
             /\ written' = IF p \in Declared THEN [written EXCEPT ![p] = NoValue] ELSE written
             /\ calls' = [Advance(c) EXCEPT ![c].res = out.res]
  /\ UNCHANGED <<twin, backend, capacity, now, broadcast_capacity, subs, lifecycle, matched,
                 registry, slot, request, listeners>>

post_return(c) ==
  /\ calls[c].op = "post_settings"
  /\ Doing(c, "return")
  /\ calls' = [calls EXCEPT ![c] = Idle]
  /\ UNCHANGED <<twin, api_vars, backend, pins, live, registry, slot, request, listeners>>

PostPins == {2}

PostPayloads ==
  {SettingsPayload("Floating", "Rising", NoValue),
   SettingsPayload(Absent, "Both", NoValue),
   SettingsPayload(Absent, Absent, MaxDebounce),
   SettingsPayload("Disabled", Absent, NoValue)}

NextPosts ==
  \/ \E c \in CallerIds, p \in PostPins, payload \in PostPayloads : post_call(c, p, payload)
  \/ \E c \in CallerIds : post_read(c)
  \/ \E c \in CallerIds : post_apply(c)
  \/ \E c \in CallerIds : post_return(c)

SpecPosts == Init /\ [][NextPosts]_vars

\* the two backends side by side: every call is made on the kernel backend,
\* whose driver does not fail, and on a mock backend, with the same arguments
pair_set_settings(p, s, sink) ==
  \E level \in Levels(s) :
    LET hw == hw_set_settings(pins, p, s, sink, TRUE, level)
        mock == mock_set_settings(twin.pins, p, s, sink)
    IN /\ Apply(hw)
       /\ twin' = Twin(mock.pins, mock.res, DefaultSettings)
       /\ ret' = [Ret("pair_set_settings", p, hw.res, hw.msg) EXCEPT !.settings = s]
       /\ UNCHANGED <<lock_vars, backend, capacity, now, last_set, written, broadcast_capacity,
                      subs, lifecycle, matched>>

pair_get_settings(p) ==
  /\ twin' = Twin(twin.pins, "Ok", mock_get_settings(twin.pins, p))
  /\ ret' = [Ret("pair_get_settings", p, "Ok", "") EXCEPT !.settings = hw_get_settings(pins, p)]
  /\ UNCHANGED <<lock_vars, backend, capacity, pins, history, now, last_set, written, dispatched,
                 broadcast_capacity, bus, subs, live, lifecycle, matched>>

pair_read_value(p) ==
  LET hw == hw_read_value(pins, p, TRUE)
      mock == mock_read_value(twin.pins, p)
  IN /\ twin' = Twin(mock.pins, mock.res, DefaultSettings)
     /\ ret' = [Ret("pair_read_value", p, hw.res, hw.msg) EXCEPT !.value = hw.value]
     /\ UNCHANGED <<lock_vars, backend, capacity, pins, history, now, last_set, written,
                    dispatched, broadcast_capacity, bus, subs, live, lifecycle, matched>>

pair_write_value(p, v) ==
  LET hw == hw_write_value(pins, p, v, TRUE)
      mock == mock_write_value(twin.pins, p, v, now)
  IN /\ Apply(hw)
     /\ twin' = Twin(mock.pins, mock.res, DefaultSettings)
     /\ ret' = [Ret("pair_write_value", p, hw.res, hw.msg) EXCEPT !.value = v]
     /\ UNCHANGED <<lock_vars, backend, capacity, now, last_set, written, broadcast_capacity,
                    subs, lifecycle, matched>>

PairPins == {1}

\* the valid settings among the settings the backends are called with
PairSettingsInputs == {s \in SettingsInputs : validate_pin_settings(s) = "Ok"}

NextPair ==
  \/ \E p \in PairPins, s \in PairSettingsInputs, sink \in BOOLEAN : pair_set_settings(p, s, sink)
  \/ \E p \in PairPins : pair_get_settings(p)
  \/ \E p \in PairPins : pair_read_value(p)
  \/ \E p \in PairPins, v \in MockValues : pair_write_value(p, v)

SpecPair == InitBackend /\ [][NextPair]_vars

\* the dispatcher, step by step: dispatch(event) appends the event to the
\* history of its pin and then sends it on the broadcast channel, and a
\* subscriber may take its turn between the two
dispatch_steps_send_first == <<"send", "append">>

dispatch_steps == <<"append", "send">>

dispatch_step(step, hist, cap, b, event) ==
  [history |-> IF step = "append" THEN dispatch(hist, cap, event) ELSE hist,
   bus |-> IF step = "send" THEN publish(b, hist, event) ELSE b]

\* the event of a pin that is inside dispatch: handed over, and not yet both
\* appended and sent
InDispatch(p) ==
  /\ dispatched[p] # <<>>
  /\ LET event == dispatched[p][Len(dispatched[p])]
     IN \/ \A i \in 1..Len(history[p]) : history[p][i] # event
        \/ \A i \in 1..Len(bus) : bus[i] # event

dispatch_begin_unstopped(p) ==
  /\ backend = "libgpiod"
  /\ now < MaxEvents
  /\ ~InDispatch(p)
  /\ LET level == IF p \in DOMAIN pins THEN 1 - pins[p].value ELSE 1
         edge_kind == IF level = 1 THEN "Rising" ELSE "Falling"
         event == EdgeEvent(p, edge_kind, now)
         after == dispatch_step(dispatch_steps[1], history, capacity, bus, event)
     IN /\ pins' = IF p \in DOMAIN pins THEN [pins EXCEPT ![p].value = level] ELSE pins
        /\ dispatched' = log_all(dispatched, <<event>>)
        /\ history' = after.history
        /\ bus' = after.bus
        /\ ret' = [Ret("dispatch_begin", p, "Ok", "") EXCEPT !.events = <<event>>]
  /\ now' = now + 1
  /\ UNCHANGED <<twin, lock_vars, backend, capacity, last_set, written, broadcast_capacity, subs, live,
                 lifecycle, matched>>

\* the listener of a pin reads an edge that matches the configured detection
\* and calls the callback, which enters dispatch and takes its first step;
\* the listener is one thread, so it is not inside dispatch already
dispatch_begin(p) ==
  /\ backend = "libgpiod"
  /\ p \in DOMAIN pins
  /\ pins[p].listener
  /\ now < MaxEvents
  /\ ~InDispatch(p)
  /\ LET level == 1 - pins[p].value
         edge_kind == IF level = 1 THEN "Rising" ELSE "Falling"
         event == EdgeEvent(p, edge_kind, now)
         after == dispatch_step(dispatch_steps[1], history, capacity, bus, event)
     IN /\ edge_matches(pins[p].settings.edge, edge_kind)
        /\ pins' = [pins EXCEPT ![p].value = level]
        /\ dispatched' = log_all(dispatched, <<event>>)
        /\ history' = after.history
        /\ bus' = after.bus
        /\ ret' = [Ret("dispatch_begin", p, "Ok", "") EXCEPT !.events = <<event>>]
  /\ now' = now + 1
  /\ UNCHANGED <<twin, lock_vars, backend, capacity, last_set, written, broadcast_capacity, subs, live,
                 lifecycle, matched>>

\* dispatch takes its second step and returns to the listener
dispatch_end(p) ==
  /\ InDispatch(p)
  /\ LET event == dispatched[p][Len(dispatched[p])]
         after == dispatch_step(dispatch_steps[2], history, capacity, bus, event)
     IN /\ history' = after.history
        /\ bus' = after.bus
        /\ ret' = [Ret("dispatch_end", p, "Ok", "") EXCEPT !.events = <<event>>]
  /\ UNCHANGED <<twin, lock_vars, backend, capacity, pins, now, last_set, written, dispatched,
                 broadcast_capacity, subs, live, lifecycle, matched>>

\* the edges the kernel has queued for a line since the listener last read
\* them, oldest first: the level alternates, each edge has its own instant,
\* and only the edges of the configured detection are queued
KernelEvent(kind, t, ok) == [kind |-> kind, timestamp_ms |-> t, ok |-> ok]

kernel_edges(configured, value, t, oks) ==
  LET all == [i \in 1..Len(oks) |->
                KernelEvent(IF (value + i) % 2 = 1 THEN "Rising" ELSE "Falling",
                            t + i - 1, oks[i])]
      Queued(e) == edge_matches(configured, e.kind)
  IN SelectSeq(all, Queued)

\* for evt in events: a malformed event is skipped, the others become
\* EdgeEvents with the hardware timestamp, in the order they were read
translate_events_newest_first(p, events) ==
  [i \in 1..Len(events) |->
     EdgeEvent(p, events[Len(events) + 1 - i].kind, events[Len(events) + 1 - i].timestamp_ms)]

RECURSIVE translate_events(_, _)
translate_events(p, events) ==
  IF events = <<>> THEN <<>>
  ELSE (IF Head(events).ok
          THEN <<EdgeEvent(p, Head(events).kind, Head(events).timestamp_ms)>>
        ELSE <<>>) \o translate_events(p, Tail(events))

BatchSize == 2

\* the listener finds several edges queued: it reads them in one batch and
\* calls the callback for each in turn, each call returning before the next
listener_batch(p) ==
  /\ backend = "libgpiod"
  /\ p \in DOMAIN pins
  /\ pins[p].listener
  /\ now + BatchSize <= MaxEvents
  /\ ~InDispatch(p)
  /\ \E oks \in [1..BatchSize -> BOOLEAN] :
       LET edges == kernel_edges(pins[p].settings.edge, pins[p].value, now, oks)
           events == translate_events(p, edges)
           level == (pins[p].value + BatchSize) % 2
       IN /\ Apply(Outcome("Ok", "", [pins EXCEPT ![p].value = level], NoValue, events))
          /\ ret' = [Ret("listener_batch", p, "Ok", "") EXCEPT !.events = events]
  /\ now' = now + BatchSize
  /\ UNCHANGED <<twin, lock_vars, backend, capacity, last_set, written, broadcast_capacity, subs,
                 lifecycle, matched>>

\* set_settings on a pin whose listener may be inside dispatch: a call that
\* stops the listener joins it, and so returns only when the callback has
\* returned to the listener
set_settings_joined(p, s) ==
  /\ s.edge = "None" => ~InDispatch(p)
  /\ set_settings(p, s, TRUE)

DispatchPins == {1}

DispatchSettingsInputs ==
  {s \in PinSettings : /\ s.debounce_ms = 0
                       /\ \/ s.state = "Floating" /\ s.edge \in {"None", "Both"}
                          \/ s.state = "Disabled" /\ s.edge = "None"}

DispatchSubscribers == {1}

InitDispatch ==
  /\ backend = "libgpiod"
  /\ capacity \in {1, MaxCapacity}
  /\ broadcast_capacity = MaxBroadcast
  /\ Constructed

NextDispatch ==
  \/ \E p \in DispatchPins, s \in DispatchSettingsInputs : set_settings_joined(p, s)
  \/ \E p \in DispatchPins : dispatch_begin(p)
  \/ \E p \in DispatchPins : dispatch_end(p)
  \/ \E p \in DispatchPins : listener_batch(p)
  \/ \E k \in DispatchSubscribers : events_ws_all(k, TRUE)
  \/ \E k \in DispatchSubscribers : ws_next(k, TRUE)

SpecDispatch == InitDispatch /\ [][NextDispatch]_vars

\* ------------------------------------------------------------- claims
EdgeDetectableStates == {"Floating", "PullUp", "PullDown"}

\* the invariants of PinSettings
Valid(s) ==
  /\ s.state # "Error"
  /\ s.state = "Disabled" => (s.edge = "None" /\ s.debounce_ms = 0)
  /\ s.edge # "None" => s.state \in EdgeDetectableStates
  /\ s.debounce_ms # 0 => s.edge # "None"

\* C1: for every PinSettings value the kernel backend's set_settings
\* succeeds, when the driver does not fail, exactly when the settings satisfy
\* the invariants, and rejects the others with InvalidState.
C1_BackendAccepts ==
  /\ \A p \in BackendPins, s \in PinSettings, sink \in BOOLEAN, level \in {0} :
        /\ hw_set_settings(pins, p, s, sink, TRUE, level).res = "Ok" <=> Valid(s)
        /\ hw_set_settings(pins, p, s, sink, FALSE, level).res = "InvalidState" <=> ~Valid(s)
  /\ (ret.op = "set_settings" /\ ret.res # "Gpio") => (ret.res = "Ok" <=> Valid(ret.settings))

C1_Witness ==
  /\ ret.op = "set_settings"
  /\ ret.res = "Ok"
  /\ ret.settings.state = "PullDown"
  /\ ret.settings.edge = "Falling"
  /\ ret.settings.debounce_ms # 0

WritableStates == {"PushPull", "OpenDrain", "OpenSource"}

\* C2: set_pin_settings on a declared pin fails with InvalidState when the
\* requested state is not in the pin's capability set; Disabled always passes
\* the capability check and Error never passes it, even when listed.
C2_CapabilityGating ==
  (ret.op = "set_pin_settings" /\ ret.pin \in Declared) =>
    /\ (ret.settings.state \notin capabilities(ret.pin) /\ ret.settings.state # "Disabled")
         => ret.res = "InvalidState"
    /\ ret.settings.state = "Error"
         => (ret.res = "InvalidState" /\ ret.msg = "state not supported by pin")
    /\ ret.settings.state = "Disabled" => ret.msg # "state not supported by pin"

C2_Witness ==
  /\ ret.op = "set_pin_settings"
  /\ ret.pin = 1
  /\ ret.settings.state = "Error"
  /\ "Error" \in capabilities(1)
  /\ ret.res = "InvalidState"

C4_RoundTrip ==
  \A p \in Declared :
    written[p] # NoValue =>
      /\ manager_read_value(pins, p, TRUE).res = "Ok"
      /\ manager_read_value(pins, p, TRUE).value = written[p]
      /\ (ret.op = "read_value" /\ ret.pin = p /\ ret.res = "Ok") => ret.value = written[p]

C4_Witness ==
  /\ ret.op = "read_value"
  /\ ret.pin \in Declared
  /\ ret.res = "Ok"
  /\ ret.value = 1
  /\ written[ret.pin] = 1

\* C5: write_value of 0 or 1 on a declared pin that is not in a writable state
\* fails with InvalidState and leaves the backend and the events unchanged.
C5_WriteNotWritable ==
  [][(/\ ret'.op = "write_value"
      /\ ret'.pin \in Declared
      /\ ret'.value <= 1
      /\ backend_get_settings(pins, ret'.pin).state \notin WritableStates)
     => (/\ ret'.res = "InvalidState"
         /\ pins' = pins
         /\ history' = history
         /\ dispatched' = dispatched)]_vars

C5_Witness ==
  /\ ret.op = "write_value"
  /\ ret.pin \in DOMAIN pins
  /\ pins[ret.pin].settings.state = "Floating"
  /\ ret.res = "InvalidState"

\* C6: write_value with a value above 1 fails with InvalidValue on every pin
\* in every state, and nothing changes.
C6_InvalidValue ==
  [][(ret'.op = "write_value" /\ ret'.value > 1)
     => (/\ ret'.res = "InvalidValue"
         /\ pins' = pins
         /\ history' = history
         /\ dispatched' = dispatched)]_vars

C6_Witness ==
  /\ ret.op = "write_value"
  /\ ret.value > 1
  /\ ret.res = "InvalidValue"
  /\ ret.pin \in DOMAIN pins
  /\ pins[ret.pin].settings.state = "PushPull"

\* C7: get_pin_descriptor, get_pin_info, get_pin_settings and
\* set_pin_settings on an undeclared pin fail with NotFoundPin and leave no
\* backend entry for it.
C7_UndeclaredNotFound ==
  (/\ ret.op \in {"get_pin_descriptor", "get_pin_info", "get_pin_settings", "set_pin_settings"}
   /\ ret.pin \notin Declared)
  => (ret.res = "NotFoundPin" /\ ret.pin \notin DOMAIN pins)

\* C8: read_value and write_value (of 0 or 1) on an undeclared pin fail with
\* NotFoundPin.
C8_UndeclaredValueNotFound ==
  (ret.op \in {"read_value", "write_value"} /\ ret.pin \notin Declared /\ ret.value <= 1)
  => ret.res = "NotFoundPin"

\* C9: list_pins has exactly one entry per declared pin, and a pin that was
\* never configured is listed with the default settings.
C9_ListPins ==
  ret.op = "list_pins" =>
    /\ DOMAIN ret.list = Declared
    /\ \A p \in Declared : last_set[p] = "none" => ret.list[p] = DefaultSettings

C9_Witness ==
  /\ ret.op = "list_pins"
  /\ last_set[1] = "none"
  /\ last_set[2] = "enabled"
  /\ ret.list[2] # DefaultSettings

\* C10: a pin's history never holds more than event_history_capacity events
\* and is always the newest dispatched events in dispatch order; once more
\* than the capacity were dispatched, get_events without a limit returns
\* exactly capacity events, the most recently dispatched ones, oldest first.
C10_HistoryBound ==
  /\ \A p \in Declared :
       /\ Len(history[p]) <= capacity
       /\ history[p] = Suffix(dispatched[p], capacity)
  /\ (/\ ret.op = "get_events"
      /\ ret.res = "Ok"
      /\ ret.value = NoLimit
      /\ Len(dispatched[ret.pin]) > capacity)
     => (/\ Len(ret.events) = capacity
         /\ ret.events = Suffix(dispatched[ret.pin], capacity))

C10_Witness ==
  /\ ret.op = "get_events"
  /\ ret.res = "Ok"
  /\ ret.value = NoLimit
  /\ capacity = MaxCapacity
  /\ Len(dispatched[ret.pin]) > capacity
  /\ Len(ret.events) = capacity
  /\ ret.events[1] # ret.events[2]
  /\ ret.events[1] # dispatched[ret.pin][1]

\* C11: get_events returns the whole retained history, oldest first, when the
\* limit is absent or not smaller than the history length, and otherwise
\* exactly the limit newest retained events in the same order; the history is
\* not modified by the call.
C11_GetEventsLimit ==
  [][(ret'.op = "get_events" /\ ret'.res = "Ok")
     => LET h == history[ret'.pin]
            limit == ret'.value
            n == Len(h)
        IN /\ history' = history
           /\ IF limit = NoLimit \/ limit >= n THEN ret'.events = h
              ELSE /\ Len(ret'.events) = limit
                   /\ \A i \in 1..limit : ret'.events[i] = h[n - limit + i]]_vars

C11_Witness ==
  /\ ret.op = "get_events"
  /\ ret.res = "Ok"
  /\ ret.value = 1
  /\ Len(history[ret.pin]) = 2
  /\ ret.events = <<history[ret.pin][2]>>
  /\ history[ret.pin][1] # history[ret.pin][2]

\* C14: a pin of the kernel backend never has more than one live listener
\* thread; every thread spawned and not joined is the pin's current listener,
\* which exists only while edge detection is on; spawn and join alternate,
\* starting with a spawn, so that switching edge detection on, off and on
\* again performs spawn, join, spawn and ends with exactly one live listener.
C14_ListenerLifecycle ==
  \A p \in BackendPins :
    LET current == p \in DOMAIN pins /\ pins[p].listener
        log == lifecycle[p]
    IN /\ live[p] <= 1
       /\ live[p] = IF current THEN 1 ELSE 0
       /\ current => pins[p].settings.edge # "None"
       /\ \A i \in 1..Len(log) - 1 : log[i] # log[i + 1]
       /\ (Len(log) < Len(Toggle) /\ log # <<>>) => log[1] = "spawn"
       /\ log # <<>> => (log[Len(log)] = "spawn" <=> live[p] = 1)
       /\ (ret.op = "set_settings" /\ ret.pin = p /\ ret.res = "Ok"
             /\ ret.settings.edge = "None") => live[p] = 0

C14_Witness ==
  /\ ret.op = "set_settings"
  /\ ret.res = "Ok"
  /\ ret.settings.edge = "Rising"
  /\ ret.threads = <<ThreadOp(ret.pin, "spawn")>>
  /\ lifecycle[ret.pin] = Toggle
  /\ live[ret.pin] = 1
  /\ pins[ret.pin].listener

\* C12: every subscriber that has not lagged has been sent each event
\* dispatched after it subscribed, up to its cursor, exactly once and in
\* dispatch order, however many subscribers there are.
C12_FanOut ==
  \A k \in DOMAIN subs :
    subs[k].lagged = 0 =>
      /\ subs[k].received = SubSeq(bus, subs[k].since + 1, subs[k].next - 1)
      /\ \A i \in (subs[k].since + 1)..(subs[k].next - 1) :
           Cardinality({j \in 1..Len(subs[k].received) : subs[k].received[j] = bus[i]}) = 1

C12_Witness ==
  /\ DOMAIN subs = SubscriberIds
  /\ Len(bus) = 2
  /\ \A k \in SubscriberIds :
       /\ subs[k].lagged = 0
       /\ subs[k].since = 0
       /\ subs[k].received = bus

\* C13: a subscriber is never sent an event that was dispatched before it
\* subscribed, while get_events shows that event as long as it is among the
\* newest event_history_capacity events of its pin, and get_last_event shows
\* it when it is the newest.
C13_LateSubscriber ==
  /\ \A k \in DOMAIN subs : \A i \in 1..Len(bus) :
       i <= subs[k].since =>
         /\ \A j \in 1..Len(subs[k].received) : subs[k].received[j] # bus[i]
         /\ LET e == bus[i]
                d == dispatched[e.pin_id]
                pos == CHOOSE n \in 1..Len(d) : d[n] = e
                shown == manager_get_events(history, e.pin_id, NoLimit)
            IN /\ Len(d) - pos < capacity => \E j \in 1..Len(shown) : shown[j] = e
               /\ pos = Len(d) => manager_get_last_event(history, e.pin_id) = <<e>>
  /\ (ret.op = "get_last_event" /\ ret.res = "Ok" /\ dispatched[ret.pin] # <<>>)
       => ret.events = <<dispatched[ret.pin][Len(dispatched[ret.pin])]>>

C13_Witness ==
  /\ ret.op = "get_last_event"
  /\ ret.res = "Ok"
  /\ Len(bus) = 2
  /\ ret.events = <<bus[2]>>
  /\ manager_get_events(history, ret.pin, NoLimit) = bus
  /\ \E k \in DOMAIN subs :
       /\ subs[k].since = 1
       /\ subs[k].received = <<bus[2]>>

\* the messages a subscriber has not consumed yet
Behind(k) == Len(bus) - subs[k].next + 1

\* C19: a subscriber that fell more than broadcast_capacity events behind gets
\* a lag signal at its next receive, stays subscribed and resumes from the
\* newest message; however far behind a subscriber is, a dispatch goes
\* through: the event is appended to the pin's history and sent on the bus,
\* and no subscriber's receive end is touched by it.
C19_LagSignal ==
  [][/\ \A k \in DOMAIN subs :
          (ret'.op = "ws_next" /\ ret'.value = k /\ ret'.res = "Ok"
             /\ Behind(k) > broadcast_capacity)
          => /\ k \in DOMAIN subs'
             /\ subs'[k].lagged = subs[k].lagged + 1
             /\ subs'[k].received = subs[k].received
             /\ subs'[k].next = Len(bus)
             /\ bus' = bus
             /\ history' = history
             /\ \A j \in DOMAIN subs \ {k} : j \in DOMAIN subs' /\ subs'[j] = subs[j]
     /\ (ret'.op = "edge_listener" /\ ret'.events # <<>>)
          => /\ bus' = bus \o ret'.events
             /\ subs' = subs
             /\ \A i \in 1..Len(ret'.events) :
                  LET e == ret'.events[i]
                  IN history'[e.pin_id][Len(history'[e.pin_id])] = e]_vars

C19_Witness ==
  /\ ret.op = "ws_next"
  /\ ret.res = "Ok"
  /\ ret.msg = "Lagged"
  /\ broadcast_capacity = MaxBroadcast
  /\ Len(bus) > broadcast_capacity
  /\ subs[ret.value].lagged = 1
  /\ subs[ret.value].next = Len(bus)
  /\ \E j \in DOMAIN subs : subs[j].lagged = 0 /\ subs[j].received = bus

\* the kind of a value transition, and whether an edge filter selects it
Transition(old, new) ==
  IF old = 0 /\ new = 1 THEN "Rising" ELSE IF old = 1 /\ new = 0 THEN "Falling" ELSE "None"

Selects(filter, kind) ==
  kind # "None" /\ (filter = "Both" \/ filter = kind)

C16_DebounceDelivery ==
  [][\A p \in BackendPins :
       (/\ ret'.op = "backend_write" /\ ret'.pin = p /\ ret'.res = "Ok"
        /\ p \in DOMAIN pins
        /\ pins[p].handler
        /\ Selects(pins[p].settings.edge, Transition(pins[p].value, ret'.value))
        /\ (matched[p].t = NoInstant \/ now - matched[p].t >= pins[p].settings.debounce_ms))
       => (/\ Len(ret'.events) = 1
           /\ ret'.events[1].pin_id = p
           /\ ret'.events[1].edge = Transition(pins[p].value, ret'.value)
           /\ dispatched'[p] = Append(dispatched[p], ret'.events[1]))]_vars

C16_Witness ==
  /\ ret.op = "backend_write"
  /\ ret.res = "Ok"
  /\ Len(ret.events) = 1
  /\ ret.events[1].edge = "Falling"
  /\ pins[ret.pin].settings.debounce_ms > 0
  /\ Len(dispatched[ret.pin]) = 2
  /\ dispatched[ret.pin][2].timestamp_ms - dispatched[ret.pin][1].timestamp_ms
       = pins[ret.pin].settings.debounce_ms

\* C17: a successful POST of a settings payload answers with the settings made
\* of the payload's state, edge and debounce_ms where present and of the pin's
\* current ones elsewhere, and get_pin_settings returns the same settings
\* right after it.
C17_PartialPayload ==
  [][(ret'.op = "post_settings" /\ ret'.res = "Ok")
     => LET current == backend_get_settings(pins, ret'.pin)
            payload == ret'.payload
        IN /\ ret'.settings.state =
                IF payload.state = Absent THEN current.state ELSE payload.state
           /\ ret'.settings.edge =
                IF payload.edge = Absent THEN current.edge ELSE payload.edge
           /\ ret'.settings.debounce_ms =
                IF payload.debounce_ms = NoValue THEN current.debounce_ms
                ELSE payload.debounce_ms
           /\ backend_get_settings(pins', ret'.pin) = ret'.settings]_vars

C17_Witness ==
  /\ ret.op = "post_settings"
  /\ ret.res = "Ok"
  /\ ret.payload = SettingsPayload(Absent, "Both", NoValue)
  /\ ret.settings = [state |-> "Floating", edge |-> "Both", debounce_ms |-> MaxDebounce]
  /\ backend = "libgpiod"

\* C18: a set_pin_settings call rejected with NotFoundPin or InvalidState
\* leaves the backend entries (settings, value, listener), the listener
\* threads, the histories and the bus as they were.
C18_ValidationFirst ==
  [][(ret'.op = "set_pin_settings" /\ ret'.res \in {"NotFoundPin", "InvalidState"})
     => (/\ pins' = pins
         /\ live' = live
         /\ history' = history
         /\ bus' = bus
         /\ dispatched' = dispatched)]_vars

C18_Witness ==
  /\ ret.op = "set_pin_settings"
  /\ ret.res = "InvalidState"
  /\ ret.settings.edge = "None"
  /\ ret.settings.debounce_ms # 0
  /\ ret.pin \in DOMAIN pins
  /\ pins[ret.pin].listener
  /\ pins[ret.pin].settings.edge = "Rising"
  /\ live[ret.pin] = 1

\* C20: the mock backend's set_settings returns InvalidState for settings that
\* break one of the four invariants, and stores nothing for them.
C20_MockRejects ==
  (ret.op = "set_settings" /\ backend = "mock" /\ ~Valid(ret.settings))
  => (ret.res = "InvalidState" /\ ret.pin \notin DOMAIN pins)

\* ------------------------------------------- set_settings, step by step
Done(c, instr) == \E i \in 1..Len(calls[c].done) : calls[c].done[i] = instr

Pending(c, instr) == \E i \in 1..Len(calls[c].todo) : calls[c].todo[i] = instr

\* every b of the sequence has an a before it
Before(seq, a, b) ==
  \A j \in 1..Len(seq) : seq[j] = b => \E i \in 1..j - 1 : seq[i] = a

Running(p) == listeners[p].pc \in {"check", "wait"}

\* C21: when set_settings of the kernel backend sets edge to None or state to
\* Disabled, the pin's listener has been cancelled and joined by the time the
\* call issues the reconfigure of the lines or removes the entry: from then
\* on no listener thread of the pin exists and none is left to stop.
C21_StopBeforeChange ==
  \A c \in CallerIds :
    LET call == calls[c]
    IN (/\ backend = "libgpiod"
        /\ call.op = "set_settings"
        /\ registry.writer = c
        /\ call.settings.edge = "None" \/ call.settings.state = "Disabled"
        /\ \/ Doing(c, "request.lock") \/ Doing(c, "reconfigure_lines") \/ Doing(c, "remove")
           \/ Done(c, "reconfigure_lines") \/ Done(c, "remove"))
       => /\ listeners[call.pin] = NoListener
          /\ live[call.pin] = 0
          /\ ~Pending(c, "cancel") /\ ~Pending(c, "join")
          /\ call.found => Before(call.done, "cancel", "join") /\ Done(c, "join")
          /\ call.pin \in DOMAIN pins => ~pins[call.pin].listener

C21_Witness ==
  \E c \in CallerIds :
    /\ backend = "libgpiod"
    /\ calls[c].op = "set_settings"
    /\ calls[c].settings.edge = "None"
    /\ calls[c].settings.state = "Floating"
    /\ calls[c].found
    /\ Done(c, "join")
    /\ Doing(c, "reconfigure_lines")

\* C22: when set_settings of the kernel backend turns edge detection on for
\* an entry that has no listener, the listener is spawned only after the
\* reconfigure of the lines has succeeded; when the reconfigure fails no
\* listener is spawned, and a call that succeeds returns with the listener
\* running.
C22_StartAfterReconfigure ==
  \A c \in CallerIds :
    LET call == calls[c]
    IN (/\ backend = "libgpiod"
        /\ call.op = "set_settings"
        /\ registry.writer = c
        /\ call.settings.edge # "None"
        /\ Done(c, "entry.lock")
        /\ ~call.found)
       => /\ Before(call.done, "reconfigure_lines", "spawn")
          /\ Done(c, "spawn") => call.res = "Ok"
          /\ call.res = "Gpio" => /\ ~Done(c, "spawn") /\ ~Pending(c, "spawn")
                                  /\ ~Running(call.pin)
                                  /\ live[call.pin] = 0
          /\ (Doing(c, "pins.unlock") /\ call.res = "Ok")
               => /\ Running(call.pin)
                  /\ live[call.pin] = 1
                  /\ pins[call.pin].listener

C22_Witness ==
  \E c \in CallerIds :
    /\ backend = "libgpiod"
    /\ calls[c].op = "set_settings"
    /\ calls[c].settings.edge = "Rising"
    /\ ~calls[c].found
    /\ Done(c, "reconfigure_lines")
    /\ Done(c, "spawn")
    /\ Doing(c, "pins.unlock")
    /\ Running(calls[c].pin)

\* C23: when set_settings of the kernel backend is applied to a pin with a
\* running listener and the new settings keep edge detection on, the lines are
\* reconfigured on the request the handle holds and the listener is kept: the
\* call neither cancels, joins nor spawns a thread, requests no lines and
\* inserts or removes no entry, and the one listener thread keeps looping.
C23_InPlaceReconfigure ==
  \A c \in CallerIds :
    LET call == calls[c]
    IN (/\ backend = "libgpiod"
        /\ call.op = "set_settings"
        /\ registry.writer = c
        /\ call.settings.edge # "None"
        /\ call.found)
       => /\ \A instr \in {"cancel", "join", "spawn", "request_lines", "insert", "remove"} :
               ~Done(c, instr) /\ ~Pending(c, instr)
          /\ Running(call.pin)
          /\ ~listeners[call.pin].cancel
          /\ live[call.pin] = 1
          /\ pins[call.pin].listener
          /\ (Doing(c, "pins.unlock") /\ call.res = "Ok")
               => pins[call.pin].settings = call.settings

C23_Witness ==
  \E c \in CallerIds :
    /\ backend = "libgpiod"
    /\ calls[c].op = "set_settings"
    /\ calls[c].found
    /\ calls[c].settings.edge = "Both"
    /\ pins[calls[c].pin].settings.edge = "Rising"
    /\ Doing(c, "store")
    /\ Done(c, "reconfigure_lines")
    /\ Running(calls[c].pin)

\* C24: whenever a handle is gone, by the removal set_settings(Disabled)
\* makes or by the drop of the whole backend at shutdown, its listener has been
\* cancelled and joined: no listener thread outlives its handle.
C24_DropCascade ==
  /\ \A c \in CallerIds :
       (backend = "libgpiod" /\ registry.writer = c /\ Done(c, "remove"))
         => listeners[calls[c].pin] = NoListener /\ live[calls[c].pin] = 0
  /\ backend = "dropped" => \A p \in LockPins : listeners[p] = NoListener /\ live[p] = 0

WaitsOn(c) ==
  LET p == calls[c].pin
  IN IF Doing(c, "pins.write") THEN ({registry.writer} \cup registry.readers) \ {NoThread}
     ELSE IF Doing(c, "pins.read") THEN {registry.writer} \ {NoThread}
     ELSE IF Doing(c, "entry.lock") THEN {slot[p]} \ {NoThread}
     ELSE IF Doing(c, "request.lock") THEN {request[p].owner} \ {NoThread, c}
     ELSE IF Doing(c, "join") THEN IF listeners[p].cancel THEN {} ELSE {c}
     ELSE {}

HoldsRegistry(c) == registry.writer = c \/ c \in registry.readers

HoldsEntry(c) == \E p \in LockPins : slot[p] = c

HoldsRequest(c) == \E p \in LockPins : request[p].owner = c

\* C27: the backend's locks cannot deadlock. Locks are taken in the order
\* map, entry, request and never the other way round; a listener thread holds
\* nothing but the request of its pin, which it only ever takes by try_lock;
\* set_settings joins a listener while it holds the map and the entry but not
\* the request, and only after it has set the cancel flag; and no set of
\* callers exists in which every one waits for a lock held by another of the set.
C27_DeadlockFree ==
  /\ \A c \in CallerIds :
       /\ (Doing(c, "pins.write") \/ Doing(c, "pins.read"))
            => ~HoldsRegistry(c) /\ ~HoldsEntry(c) /\ ~HoldsRequest(c)
       /\ Doing(c, "entry.lock")
            => HoldsRegistry(c) /\ ~HoldsEntry(c) /\ ~HoldsRequest(c)
       /\ Doing(c, "request.lock")
            => /\ HoldsRegistry(c)
               /\ slot[calls[c].pin] = c
               /\ \A q \in LockPins \ {calls[c].pin} : request[q].owner # c
       /\ Doing(c, "join")
            => /\ registry.writer = c
               /\ slot[calls[c].pin] = c
               /\ ~HoldsRequest(c)
               /\ listeners[calls[c].pin].cancel
  /\ \A p \in LockPins :
       /\ registry.writer # ListenerOf(p) /\ ListenerOf(p) \notin registry.readers
       /\ \A q \in LockPins :
            /\ slot[q] # ListenerOf(p)
            /\ request[q].owner = ListenerOf(p) => q = p /\ listeners[p].pc = "wait"
  /\ \A S \in SUBSET CallerIds : S # {} => \E c \in S : WaitsOn(c) \cap S = {}

C27_Witness ==
  \E c \in CallerIds, d \in CallerIds :
    /\ backend = "libgpiod"
    /\ Doing(c, "join")
    /\ registry.writer = c
    /\ slot[calls[c].pin] = c
    /\ listeners[calls[c].pin].pc = "wait"
    /\ request[calls[c].pin].owner = ListenerOf(calls[c].pin)
    /\ WaitsOn(d) = {c}

\* C28: value reads and writes on different pins run in parallel: neither
\* call ever waits for a lock the other holds.
C28_ParallelValueIO ==
  \A c \in CallerIds, d \in CallerIds :
    (/\ calls[c].op \in ValueOps
     /\ calls[d].op \in ValueOps
     /\ calls[c].pin # calls[d].pin)
    => d \notin WaitsOn(c)

\* C29: a value read or write on one pin never waits for a lock held by a
\* set_settings that reconfigures a different pin, the time that call spends
\* joining the other pin's listener included.
C29_ValueNotBehindSettings ==
  \A c \in CallerIds, d \in CallerIds :
    (/\ calls[c].op \in ValueOps
     /\ calls[d].op = "set_settings"
     /\ calls[c].pin # calls[d].pin)
    => d \notin WaitsOn(c)

\* C30: the listener cannot starve the API: a read, write or reconfigure that
\* waits for the request lock of a pin whose listener polls on it gets the
\* lock, every thread that can run being run sooner or later.
C30_NoStarvation ==
  \A c \in CallerIds, p \in FairPins :
    (Doing(c, "request.lock") /\ calls[c].pin = p) ~> (request[p].owner = c)

C30_Witness ==
  \E c \in CallerIds :
    /\ Doing(c, "request.lock")
    /\ Parked(request[calls[c].pin], c)
    /\ request[calls[c].pin].owner = ListenerOf(calls[c].pin)
    /\ listeners[calls[c].pin].pc = "wait"

\* C31: once the cancel flag of a listener is set, the listener starts no
\* further wait on the request: it ends the wait it is in, if any, and leaves
\* the loop; the join of the caller that set the flag, and with it the
\* set_settings call, returns, every thread that can run being run sooner or
\* later.
C31_CancelTerminates ==
  /\ [][\A p \in FairPins :
          listeners[p].cancel => ~(listeners[p].pc = "check" /\ listeners'[p].pc = "wait")]_vars
  /\ \A p \in FairPins : listeners[p].cancel ~> (listeners[p].pc = "none")
  /\ \A c \in CallerIds : Doing(c, "join") ~> (calls[c].op = "idle")

C31_Witness ==
  \E c \in CallerIds :
    /\ Doing(c, "join")
    /\ listeners[calls[c].pin].cancel
    /\ listeners[calls[c].pin].pc = "wait"

\* C32: an event is appended to the history of its pin before it is sent on
\* the broadcast channel: every event a subscriber has been sent is in the
\* history of its pin, unless event_history_capacity newer events of that pin
\* have evicted it; and the history of a pin is always the newest events
\* handed to dispatch for that pin, in dispatch order.
C32_AppendBeforeSend ==
  /\ \A k \in DOMAIN subs : \A j \in 1..Len(subs[k].received) :
       LET e == subs[k].received[j]
           h == history[e.pin_id]
       IN \/ \E i \in 1..Len(h) : h[i] = e
          \/ /\ Len(h) = capacity
             /\ \A i \in 1..Len(h) : h[i].timestamp_ms > e.timestamp_ms
  /\ \A p \in DispatchPins : history[p] = Suffix(dispatched[p], capacity)

C32_Witness ==
  \E k \in DOMAIN subs, p \in DispatchPins :
    /\ ret.op = "ws_next"
    /\ ret.value = k
    /\ capacity = 1
    /\ Len(dispatched[p]) = 2
    /\ subs[k].received = dispatched[p]
    /\ history[p] = <<dispatched[p][2]>>

\* the events of a pin among the first n messages of the bus
BusOf(p, n) ==
  LET OfPin(e) == e.pin_id = p
  IN SelectSeq(SubSeq(bus, 1, n), OfPin)

\* C33: the events of a pin are handed to dispatch in the order the hardware
\* stamped them, and a subscriber that has not lagged has been sent the
\* events of each pin in exactly that order, none missing and none out of
\* place, whatever the order of the events of different pins.
C33_PerPinOrder ==
  /\ \A p \in DispatchPins : \A i \in 1..Len(dispatched[p]), j \in 1..Len(dispatched[p]) :
       i < j => dispatched[p][i].timestamp_ms < dispatched[p][j].timestamp_ms
  /\ \A k \in DOMAIN subs : \A p \in DispatchPins :
       subs[k].lagged = 0 =>
         LET OfPin(e) == e.pin_id = p
         IN SelectSeq(subs[k].received, OfPin)
              = SubSeq(dispatched[p], Len(BusOf(p, subs[k].since)) + 1,
                       Len(BusOf(p, subs[k].next - 1)))

C33_Witness ==
  \E k \in DOMAIN subs, p \in DispatchPins :
    /\ subs[k].lagged = 0
    /\ ret.op = "ws_next"
    /\ Len(dispatched[p]) = 3
    /\ subs[k].received = dispatched[p]

\* C34: on the kernel backend, with the manager passing the sink exactly when
\* edge detection is on, a configured pin has a running listener if and only
\* if its stored settings have an edge other than None, in every reachable
\* state, the states after a set_settings that failed in the driver included.
C34_ListenerIffEdge ==
  backend = "libgpiod" =>
    \A p \in DOMAIN pins : pins[p].listener <=> pins[p].settings.edge # "None"

\* C35: while the settings last applied to a pin have edge None, or the pin
\* is disabled, no event of that pin is dispatched: none is handed to
\* dispatch, none enters its history and none is sent on the bus, until a
\* set_settings turns edge detection on again.
C35_NoDispatchWhileOff ==
  [][\A p \in Declared :
       (p \notin DOMAIN pins \/ pins[p].settings.edge = "None"
          \/ pins[p].settings.state = "Disabled")
       => /\ dispatched'[p] = dispatched[p]
          /\ history'[p] = history[p]
          /\ \A i \in (Len(bus) + 1)..Len(bus') : bus'[i].pin_id # p]_vars

C35_Witness ==
  \E p \in DispatchPins :
    /\ ret.op = "set_settings"
    /\ ret.res = "Ok"
    /\ ret.pin = p
    /\ ret.settings.edge = "None"
    /\ dispatched[p] # <<>>
    /\ now < MaxEvents
    /\ live[p] = 0

\* C36: the mock dispatches an event only in a write_value that succeeds on
\* a pin in a writable state with an edge other than None and that changes
\* the stored value from 0 to 1 or from 1 to 0; such settings are not valid
\* settings (edge detection needs an input state), so with valid settings no
\* call of the mock dispatches anything.
C36_MockDispatchOnlyByWrite ==
  [][\A p \in Declared :
       dispatched'[p] # dispatched[p] =>
         /\ ret'.op = "backend_write"
         /\ ret'.pin = p
         /\ ret'.res = "Ok"
         /\ p \in DOMAIN pins
         /\ is_writable(pins[p].settings.state)
         /\ pins[p].settings.edge # "None"
         /\ pins'[p].value = ret'.value
         /\ {pins[p].value, pins'[p].value} = {0, 1}
         /\ validate_pin_settings(pins[p].settings) # "Ok"]_vars

C36_Witness ==
  /\ backend = "mock"
  /\ ret.op = "backend_write"
  /\ ret.res = "Ok"
  /\ ret.events # <<>>
  /\ dispatched[ret.pin] # <<>>
  /\ is_writable(pins[ret.pin].settings.state)

\* C37: the read, merge and apply steps of a settings request are not
\* interleaved with those of another request on the same pin: when a request
\* comes to apply its merged settings, the settings of the pin are still the
\* ones it read and merged its payload over, so that no field set by another
\* request in between is overwritten with its old value.
C37_NoLostUpdate ==
  \A c \in CallerIds :
    (calls[c].op = "post_settings" /\ Doing(c, "set_pin_settings"))
    => backend_get_settings(pins, calls[c].pin) = calls[c].settings

C39_FailedFirstConfiguration ==
  /\ \A c \in CallerIds :
       (/\ calls[c].op = "set_settings"
        /\ registry.writer = c
        /\ calls[c].res = "Gpio"
        /\ Done(c, "request_lines"))
       => LET p == calls[c].pin
          IN /\ p \notin DOMAIN pins
             /\ listeners[p] = NoListener
             /\ live[p] = 0
             /\ hw_get_settings(pins, p) = DefaultSettings
             /\ hw_read_value(pins, p, TRUE).res = "InvalidState"
             /\ hw_write_value(pins, p, 1, TRUE).res = "InvalidState"
  /\ \A d \in CallerIds :
       (/\ calls[d].op \in ValueOps
        /\ d \in registry.readers
        /\ calls[d].pin \notin DOMAIN pins)
       => calls[d].res = "InvalidState"

C39_Witness ==
  \E c \in CallerIds, d \in CallerIds :
    /\ calls[c].op = "set_settings"
    /\ calls[c].settings.edge # "None"
    /\ registry.writer = c
    /\ calls[c].res = "Gpio"
    /\ Done(c, "request_lines")
    /\ Doing(c, "pins.unlock")
    /\ calls[d].op \in ValueOps
    /\ Doing(d, "pins.read")

\* C40: given the same sequence of get_settings, set_settings with valid
\* settings, read_value and write_value calls, and no driver failure, the
\* mock and the kernel backend return the same kind of outcome for every
\* call and the same settings from get_settings, for every pin and at every
\* point of the sequence, although the mock keeps an entry for a disabled pin
\* and the kernel backend removes it.
C40_BackendEquivalence ==
  /\ twin.res = ret.res
  /\ ret.op = "pair_get_settings" => twin.settings = ret.settings
  /\ \A p \in PairPins : mock_get_settings(twin.pins, p) = hw_get_settings(pins, p)

C40_Witness ==
  /\ ret.op = "pair_read_value"
  /\ ret.res = "InvalidState"
  /\ ret.pin \in DOMAIN twin.pins
  /\ ret.pin \notin DOMAIN pins
  /\ twin.pins[ret.pin].settings.state = "Disabled"

====
